---- MODULE Spec2Model ----
(***************************************************************************)
(* Model of the relationship ledger of the Duolingo followers/following    *)
(* manager: the persisted store (chrome.storage.local), the versioned      *)
(* startup load (utils/storageVersioning.js and the background script)     *)
(* and the reconciler operations of utils/dateUtils.js; then the detail    *)
(* cache of the background script (IntelligentCache), the offline queue    *)
(* of utils/offlineSupport.js (enqueue, processQueue, persistQueue,        *)
(* loadQueue) and the sync planner of utils/retryUtils.js.  Each part has  *)
(* its own specification; the variables of the other parts keep their      *)
(* initial values in it.                                                   *)
(*                                                                         *)
(* Conventions.  A JavaScript object is a function whose domain is the set *)
(* of its keys, so a missing key is a key outside the domain.  A legacy    *)
(* record stored as a bare number n is [num |-> n].  A missing or empty    *)
(* username of an observed user is "" (both are falsy in the source).      *)
(* Date.now() is the variable now.  User ids are positive, as the ids of   *)
(* the remote service are, so the test user.userId of the source is true.  *)
(***************************************************************************)
EXTENDS Integers, FiniteSets, Sequences, TLC

VARIABLES storage, now, started, lastOp

\* IntelligentCache: this.cache, this.accessOrder, and the call that ran last
VARIABLES cache, accessOrder, cacheOp

\* OfflineQueue: this.queue (the ids of the queue items, head first), the
\* queue items by id, this.isProcessing, the processQueue pass in flight, the
\* enqueue call that awaits its persistQueue, and the history of the queue
VARIABLES queue, queueItems, isProcessing, pass, pendingEnqueue, queueLog

\* IncrementalSyncManager: the result of the call that ran last
VARIABLES planned

cacheVars == <<cache, accessOrder, cacheOp>>

queueVars == <<queue, queueItems, isProcessing, pass, pendingEnqueue, queueLog>>

plannerVars == <<planned>>

\* IncrementalSyncManager.smartSync: the call in flight and the history of the
\* calls
VARIABLES sync, syncLog

syncVars == <<sync, syncLog>>

\* the reconciler calls in flight in the background script, by caller, and the
\* history of their writes
VARIABLES calls, raceLog

raceVars == <<calls, raceLog>>

\* getFollowers and getFollowing of the background script: the call of each
\* that is in flight, and the history of the calls
VARIABLES fetches, fetchLog

fetchVars == <<fetches, fetchLog>>

\* NetworkMonitor: this.isOnline
VARIABLES isOnline

networkVars == <<isOnline>>

\* the variables the ledger operations leave alone
otherVars == <<cacheVars, queueVars, plannerVars, syncVars, raceVars, fetchVars, networkVars>>

vars == <<storage, now, started, lastOp, cacheVars, queueVars, plannerVars, syncVars, raceVars,
          fetchVars, networkVars>>

(* ---------------------------------------------------------------- bounds *)

\* the clock runs from 1 to MaxTime
MaxTime == 2

\* subject ids seen on the wire
Ids == {1, 2}

Directions == {"followers", "following"}

\* the ids a snapshot of each direction may hold
IdsOf(dir) == IF dir = "followers" THEN {1} ELSE {1, 2}

\* the usernames the remote service may report for a subject ("" = missing):
\* the followers vary in their usernames, the following in their subjects
NamesOf(dir, id) ==
  IF dir = "followers" THEN {"", "Unknown", "a", "a2"}
  ELSE IF id = 1 THEN {"a"} ELSE {"b"}

\* the snapshots of one direction: a username for each observed subject
Snapshots(dir) ==
  {obs \in UNION {[S -> {"", "Unknown", "a", "a2", "b"}] : S \in SUBSET IdsOf(dir)} :
     \A u \in DOMAIN obs : obs[u] \in NamesOf(dir, u)}

FollowersSnapshots == Snapshots("followers")

FollowingSnapshots == Snapshots("following")

\* the usernames handleFollow passes to registerFollow: the placeholder or a name
ExplicitNamesOf(dir, id) == NamesOf(dir, id) \ {""}

(* --------------------------------------------------- JavaScript helpers *)

\* the empty object {}
EmptyObject == [x \in {} |-> 0]

\* obj with obj[k] = v
Put(obj, k, v) == [x \in DOMAIN obj \cup {k} |-> IF x = k THEN v ELSE obj[x]]

\* a || b on strings
OrElse(a, b) == IF a # "" THEN a ELSE b

\* a number that need not be whole (an average): the fraction num / den in
\* lowest terms, den > 0
RECURSIVE GCD(_, _)
GCD(a, b) == IF b = 0 THEN a ELSE GCD(b, a % b)

Fraction(num, den) ==
  [num |-> num \div GCD(num, den), den |-> den \div GCD(num, den)]

Whole(n) == [num |-> n, den |-> 1]

\* x * n, x + n and x / n for a fraction x and a whole number n
Times(x, n) == Fraction(x.num * n, x.den)

Plus(x, n) == Fraction(x.num + n * x.den, x.den)

Over(x, n) == Fraction(x.num, x.den * n)

(* ------------------------------------------------- utils/dateUtils.js *)

CURRENT_STORAGE_VERSION == 2

EmptyLedger == [d \in Directions |-> EmptyObject]

\* one iteration of the loops, with a record that lacks isActive taken as inactive
MigrateRecordIfNeeded_DefaultsInactive(r) ==
  IF "num" \in DOMAIN r
  THEN [timestamp |-> r.num, username |-> "Unknown", isActive |-> TRUE]
  ELSE IF "isActive" \notin DOMAIN r THEN Put(r, "isActive", FALSE) ELSE r

\* one iteration of the loops of migrateDataIfNeeded
MigrateRecordIfNeeded(r) ==
  IF "num" \in DOMAIN r
  THEN [timestamp |-> r.num, username |-> "Unknown", isActive |-> TRUE]
  ELSE IF "isActive" \notin DOMAIN r THEN Put(r, "isActive", TRUE) ELSE r

\* migrateDataIfNeeded: the ledger it leaves in the store
migrateDataIfNeeded(followDates) ==
  [d \in DOMAIN followDates |->
     [u \in DOMAIN followDates[d] |-> MigrateRecordIfNeeded(followDates[d][u])]]

\* initializeStorage of dateUtils.js: the store it leaves
initializeStorage(st) ==
  IF "followDates" \notin DOMAIN st
  THEN Put(st, "followDates", EmptyLedger)
  ELSE Put(st, "followDates", migrateDataIfNeeded(st.followDates))

\* getFollowDates: initializeStorage, then the stored ledger
getFollowDates(st) == initializeStorage(st).followDates

\* saveFollowDates
saveFollowDates(st, followDates) == Put(st, "followDates", followDates)

\* the record registerNew* and register* insert for an unknown subject
NewRecord(username) ==
  [timestamp |-> now, username |-> username, isActive |-> TRUE]

\* Reactivate with the timestamp set anew
Reactivate_ResetsTimestamp(rec, username) ==
  [rec EXCEPT !.isActive = TRUE, !.username = OrElse(username, rec.username),
              !.timestamp = now]

\* the reactivation branch of registerNew*
Reactivate(rec, username) ==
  [rec EXCEPT !.isActive = TRUE, !.username = OrElse(username, rec.username)]

\* RegisterNewCollection with the username of a reactivated subject left as stored
RegisterNewCollection_KeepsUsername(stored, observed) ==
  [u \in DOMAIN stored \cup DOMAIN observed |->
     IF u \notin DOMAIN stored
     THEN NewRecord(OrElse(observed[u], "Unknown"))
     ELSE IF u \in DOMAIN observed /\ ~stored[u].isActive
          THEN [stored[u] EXCEPT !.isActive = TRUE]
          ELSE stored[u]]

\* the collection registerNew* leaves
RegisterNewCollection(stored, observed) ==
  [u \in DOMAIN stored \cup DOMAIN observed |->
     IF u \notin DOMAIN stored
     THEN NewRecord(OrElse(observed[u], "Unknown"))
     ELSE IF u \in DOMAIN observed /\ ~stored[u].isActive
          THEN Reactivate(stored[u], observed[u])
          ELSE stored[u]]

\* NewlyRegistered with the reactivated subjects returned too
NewlyRegistered_WithReactivated(stored, observed) ==
  {u \in DOMAIN observed : u \notin DOMAIN stored \/ ~stored[u].isActive}

\* the list registerNew* returns (the ids of its entries)
NewlyRegistered(stored, observed) ==
  {u \in DOMAIN observed : u \notin DOMAIN stored}

\* the branch of register* for a subject that has a record
ReactivateExplicit(rec, username) ==
  [rec EXCEPT !.isActive = TRUE, !.username = OrElse(username, rec.username)]

\* the collection registerFollow / registerFollower leaves
RegisterExplicitCollection(stored, userId, username) ==
  IF userId \in DOMAIN stored
  THEN [stored EXCEPT ![userId] = ReactivateExplicit(stored[userId], username)]
  ELSE Put(stored, userId, NewRecord(username))

\* SetInactive with the record deleted
SetInactive_Deletes(stored, userId) ==
  [u \in DOMAIN stored \ {userId} |-> stored[u]]

\* the collection removeFollowing / removeFollower leaves
SetInactive(stored, userId) ==
  IF userId \in DOMAIN stored
  THEN [stored EXCEPT ![userId] = [@ EXCEPT !.isActive = FALSE]]
  ELSE stored

\* ReportsInactivated without the test of isActive
ReportsInactivated_Always(rec) == TRUE

\* sync*Storage, first loop: is the stored subject reported as inactivated
ReportsInactivated(rec) == rec.isActive # FALSE

\* sync*Storage, first loop: the list of inactivated records
SyncInactivated(stored, observed) ==
  {[userId |-> u, timestamp |-> stored[u].timestamp,
    username |-> OrElse(stored[u].username, "Unknown")] :
     u \in {v \in DOMAIN stored : v \notin DOMAIN observed /\ ReportsInactivated(stored[v])}}

\* UpdatesUsername without the test of the observed username
UpdatesUsername_EmptyToo(rec, username) ==
  \/ rec.username = ""
  \/ rec.username = "Unknown"
  \/ rec.username # username

\* sync*Storage, second loop: is the stored username overwritten
UpdatesUsername(rec, username) ==
  /\ username # ""
  /\ \/ rec.username = ""
     \/ rec.username = "Unknown"
     \/ rec.username # username

\* sync*Storage, second loop: the counter updatedUsernames
SyncUpdatedUsernames(stored, observed) ==
  Cardinality({u \in DOMAIN observed \cap DOMAIN stored :
                 UpdatesUsername(stored[u], observed[u])})

\* SyncCollection with the subjects absent from the snapshot deleted
SyncCollection_Deletes(stored, observed) ==
  [u \in DOMAIN stored \cap DOMAIN observed |->
     [stored[u] EXCEPT
        !.isActive = TRUE,
        !.username = IF UpdatesUsername(stored[u], observed[u])
                     THEN observed[u] ELSE @]]

\* sync*Storage: the collection in memory after both loops
SyncCollection(stored, observed) ==
  [u \in DOMAIN stored |->
     IF u \notin DOMAIN observed
     THEN [stored[u] EXCEPT !.isActive = FALSE]
     ELSE [stored[u] EXCEPT
             !.isActive = TRUE,
             !.username = IF UpdatesUsername(stored[u], observed[u])
                          THEN observed[u] ELSE @]]

\* sync*Storage: the condition of the final saveFollowDates
SyncSaves(inactivated, updatedUsernames) ==
  Cardinality(inactivated) > 0 \/ updatedUsernames > 0

(* ------------------------------------------------------ history record *)

\* the collection of one direction in a store, empty when the store has none
CollectionOf(st, dir) ==
  IF "followDates" \in DOMAIN st /\ dir \in DOMAIN st.followDates
  THEN st.followDates[dir] ELSE [x \in {} |-> 0]

\* is the stored record inactive (a record without the field counts as active)
IsInactive(rec) == "isActive" \in DOMAIN rec /\ rec.isActive = FALSE

\* the timestamp of a stored record of either shape
TimestampOf(rec) == IF "num" \in DOMAIN rec THEN rec.num ELSE rec.timestamp

\* lastOp describes the operation that ran last: its name, its arguments, the
\* time it ran at, what it returned, which subjects of its direction had a
\* record (hadRecord) and were inactive (wasInactive) when it started, whether
\* it is a sync that repeats the sync before it (repeated), and how far the
\* calls so far have followed the reference scenario (scenario, firstSeenAt)
NoOp ==
  [seq |-> 0, op |-> "none", dir |-> "", userId |-> 0, username |-> "",
   observed |-> EmptyObject, at |-> 0, hadRecord |-> {}, wasInactive |-> {},
   newIds |-> {}, inactivated |-> {}, updatedUsernames |-> 0, failed |-> FALSE,
   repeated |-> FALSE, scenario |-> 0, firstSeenAt |-> 0]

\* the record of an operation that runs now on direction dir
Ran(dir) ==
  [NoOp EXCEPT
     !.seq = 1 - lastOp.seq,
     !.at = now,
     !.dir = dir,
     !.hadRecord = DOMAIN CollectionOf(storage, dir),
     !.wasInactive = {u \in DOMAIN CollectionOf(storage, dir) :
                        IsInactive(CollectionOf(storage, dir)[u])}]

\* no collection of the store holds a record
FreshLedger(st) == \A d \in Directions : DOMAIN CollectionOf(st, d) = {}

\* the step of the reference scenario that the call rec completes, 0 for none:
\* registerNew([1:"a"]) on a fresh ledger, sync([1:"a"]), sync([]),
\* registerNew([1:"a2"]), all on the followers and with no other call between
ScenarioStep(rec) ==
  IF rec.dir # "followers" THEN 0
  ELSE IF rec.op = "registerNew" /\ rec.observed = [u \in {1} |-> "a"] /\ FreshLedger(storage)
       THEN 1
  ELSE IF lastOp.scenario = 1 /\ rec.op = "sync" /\ rec.observed = [u \in {1} |-> "a"]
       THEN 2
  ELSE IF lastOp.scenario = 2 /\ rec.op = "sync" /\ DOMAIN rec.observed = {}
       THEN 3
  ELSE IF lastOp.scenario = 3 /\ rec.op = "registerNew" /\ rec.observed = [u \in {1} |-> "a2"]
       THEN 4
  ELSE 0

\* the history fields of the call rec
Observe(rec) ==
  [rec EXCEPT
     !.repeated = /\ rec.op = "sync" /\ lastOp.op = "sync"
                  /\ lastOp.dir = rec.dir /\ lastOp.observed = rec.observed,
     !.scenario = ScenarioStep(rec),
     !.firstSeenAt = IF ScenarioStep(rec) = 1 THEN now
                     ELSE IF ScenarioStep(rec) > 1 THEN lastOp.firstSeenAt ELSE 0]

(* ----------------------------------------------------------- operations *)

registerNew(dir, observed) ==
  /\ started
  /\ LET st0 == initializeStorage(storage)
         followDates == getFollowDates(st0)
         stored == followDates[dir]
     IN /\ storage' = saveFollowDates(st0,
                        [followDates EXCEPT ![dir] = RegisterNewCollection(stored, observed)])
        /\ lastOp' = Observe([Ran(dir) EXCEPT
                                   !.op = "registerNew", !.observed = observed,
                                   !.newIds = NewlyRegistered(stored, observed)])
  /\ UNCHANGED <<now, started, otherVars>>

registerNewFollowers == \E obs \in FollowersSnapshots : registerNew("followers", obs)

registerNewFollowing == \E obs \in FollowingSnapshots : registerNew("following", obs)

syncStorage(dir, observed) ==
  /\ started
  /\ LET st0 == initializeStorage(storage)
         followDates == getFollowDates(st0)
         stored == followDates[dir]
         inactivated == SyncInactivated(stored, observed)
         updatedUsernames == SyncUpdatedUsernames(stored, observed)
     IN /\ storage' = IF SyncSaves(inactivated, updatedUsernames)
                      THEN saveFollowDates(st0,
                             [followDates EXCEPT ![dir] = SyncCollection(stored, observed)])
                      ELSE st0
        /\ lastOp' = Observe([Ran(dir) EXCEPT
                                   !.op = "sync", !.observed = observed,
                                   !.inactivated = inactivated,
                                   !.updatedUsernames = updatedUsernames])
  /\ UNCHANGED <<now, started, otherVars>>

syncFollowersStorage == \E obs \in FollowersSnapshots : syncStorage("followers", obs)

syncFollowingStorage == \E obs \in FollowingSnapshots : syncStorage("following", obs)

registerExplicit(dir, userId, username) ==
  /\ started
  /\ LET st0 == initializeStorage(storage)
         followDates == getFollowDates(st0)
     IN /\ storage' = saveFollowDates(st0,
                        [followDates EXCEPT
                           ![dir] = RegisterExplicitCollection(followDates[dir], userId, username)])
        /\ lastOp' = Observe([Ran(dir) EXCEPT
                                   !.op = "registerExplicit", !.userId = userId,
                                   !.username = username])
  /\ UNCHANGED <<now, started, otherVars>>

\* registerFollow(userId, username = "Unknown")
registerFollow ==
  \E u \in IdsOf("following") : \E n \in ExplicitNamesOf("following", u) : registerExplicit("following", u, n)

\* registerFollower(userId, username = "Unknown")
registerFollower ==
  \E u \in IdsOf("followers") : \E n \in ExplicitNamesOf("followers", u) : registerExplicit("followers", u, n)

\* handleFollow of the background script: the username it passes to
\* registerFollow, from the response of the follow request (data.username or
\* data.user.username) or else from getUserDetails, "" for none
FollowUsername(responseName, detailsName) ==
  IF responseName # "" THEN responseName
  ELSE IF detailsName # "" THEN detailsName
  ELSE "Unknown"

\* handleFollow after a follow request that succeeded
handleFollow(targetUserId, responseName, detailsName) ==
  registerExplicit("following", targetUserId, FollowUsername(responseName, detailsName))

HandleFollow ==
  \E u \in IdsOf("following") :
    \E responseName \in {""} \cup NamesOf("following", u),
       detailsName \in {""} \cup NamesOf("following", u) :
      handleFollow(u, responseName, detailsName)

setInactive(dir, userId) ==
  /\ started
  /\ LET st0 == initializeStorage(storage)
         followDates == getFollowDates(st0)
     IN /\ storage' = saveFollowDates(st0,
                        [followDates EXCEPT ![dir] = SetInactive(followDates[dir], userId)])
        /\ lastOp' = Observe([Ran(dir) EXCEPT !.op = "setInactive", !.userId = userId])
  /\ UNCHANGED <<now, started, otherVars>>

removeFollowing == \E u \in Ids : setInactive("following", u)

removeFollower == \E u \in Ids : setInactive("followers", u)

(* ----------------------------------- the ledger queries of dateUtils.js *)

\* getFollowingDate / getFollowerDate: the result, or the empty object for null
getDate(st, dir, userId) ==
  LET stored == getFollowDates(st)[dir]
  IN IF userId \in DOMAIN stored
     THEN [date |-> stored[userId].timestamp,
           username |-> OrElse(stored[userId].username, "Unknown")]
     ELSE EmptyObject

\* getInactiveUsers: the ids it returns for one direction
getInactiveUsers(st, dir) ==
  LET stored == getFollowDates(st)[dir]
  IN {u \in DOMAIN stored :
        /\ "num" \notin DOMAIN stored[u]
        /\ stored[u].timestamp # 0
        /\ stored[u].isActive = FALSE}

(* -------------------------------------------- utils/storageVersioning.js *)

\* lastSync: null
NullTime == 0

\* MigrateV1Record with the timestamp of an object record set anew
MigrateV1Record_StampsNow(r) ==
  IF "num" \in DOMAIN r
  THEN [timestamp |-> r.num, username |-> "Unknown", source |-> "migration_v1"]
  ELSE [timestamp |-> now,
        username |-> IF "username" \in DOMAIN r /\ r.username # ""
                     THEN r.username ELSE "Unknown",
        source |-> IF "source" \in DOMAIN r THEN r.source ELSE "migration_v1"]

\* the record migrateV1ToV2 writes for a stored record
MigrateV1Record(r) ==
  IF "num" \in DOMAIN r
  THEN [timestamp |-> r.num, username |-> "Unknown", source |-> "migration_v1"]
  ELSE [timestamp |-> IF "timestamp" \in DOMAIN r /\ r.timestamp # 0
                      THEN r.timestamp ELSE now,
        username |-> IF "username" \in DOMAIN r /\ r.username # ""
                     THEN r.username ELSE "Unknown",
        source |-> IF "source" \in DOMAIN r THEN r.source ELSE "migration_v1"]

\* migrateV1ToV2 throws: Object.entries of a collection the ledger lacks
MigrateV1ToV2Throws(data) ==
  /\ "followDates" \in DOMAIN data
  /\ Directions \ DOMAIN data.followDates # {}

\* migrateV1ToV2: the data it returns
migrateV1ToV2(data) ==
  LET followDates == IF "followDates" \in DOMAIN data THEN data.followDates ELSE EmptyLedger
      migratedData == [d \in Directions |->
                         [u \in DOMAIN followDates[d] |-> MigrateV1Record(followDates[d][u])]]
  IN [followDates |-> migratedData,
      metadata |->
        [version |-> 2, lastSync |-> NullTime,
         syncStats |-> [totalSyncs |-> 0, lastSyncDuration |-> 0, averageSyncDuration |-> Whole(0)],
         migrationHistory |->
           <<[fromVersion |-> 1, toVersion |-> 2, timestamp |-> now,
              recordsMigrated |-> [d \in Directions |-> Cardinality(DOMAIN migratedData[d])]]>>]]

\* migrateStorage: the final chrome.storage.local.set
migrateStorage(st, toVersion, currentData) ==
  Put(Put(Put(st, "storageVersion", toVersion),
          "followDates", currentData.followDates),
      "metadata", currentData.metadata)

\* initializeFreshStorage
initializeFreshStorage(st) ==
  Put(Put(Put(st, "storageVersion", CURRENT_STORAGE_VERSION),
          "followDates", EmptyLedger),
      "metadata",
      [version |-> CURRENT_STORAGE_VERSION, lastSync |-> NullTime,
       syncStats |-> [totalSyncs |-> 0, lastSyncDuration |-> 0, averageSyncDuration |-> Whole(0)],
       created |-> now])

\* result[STORAGE_VERSION_KEY] || 1
StoredVersion(st) ==
  IF "storageVersion" \in DOMAIN st /\ st.storageVersion # 0 THEN st.storageVersion ELSE 1

\* the catch block of initializeStorage in the background script
FallbackStorage(st) == Put(st, "followDates", EmptyLedger)

\* initializeStorage of the background script, run when the script loads
Startup ==
  /\ storage' =
       IF StoredVersion(storage) < CURRENT_STORAGE_VERSION
       THEN IF MigrateV1ToV2Throws(storage)
            THEN FallbackStorage(storage)
            ELSE migrateStorage(storage, CURRENT_STORAGE_VERSION, migrateV1ToV2(storage))
       ELSE IF "followDates" \notin DOMAIN storage
            THEN initializeFreshStorage(storage)
            ELSE storage
  /\ lastOp' = Observe([Ran("") EXCEPT
                          !.op = "startup",
                          !.failed = /\ StoredVersion(storage) < CURRENT_STORAGE_VERSION
                                     /\ MigrateV1ToV2Throws(storage)])
  /\ started' = TRUE
  /\ UNCHANGED <<now, otherVars>>

Tick ==
  /\ started
  /\ now < MaxTime
  /\ now' = now + 1
  /\ UNCHANGED <<storage, started, lastOp, otherVars>>

(* ------------------------------ IntelligentCache (background script) *)

\* the capacity of the cache (the constructor argument maxSize)
MaxSize == 2

\* the clock of the cache runs from 1 to CacheMaxTime
CacheMaxTime == 3

CacheKeys == {"k1", "k2", "k3"}

CacheValues == {"v1", "v2"}

\* the ttl arguments of set
TTLs == {1, 2}

\* the null that get returns on a miss
null == "null"

\* the cache object: the two Maps.  this.cache is a function on its keys (no
\* code depends on its order); this.accessOrder is the sequence of its
\* entries in the order a Map iterates them, which is insertion order
CacheObject == [cache |-> cache, accessOrder |-> accessOrder]

\* Map.prototype.set: a new key is appended, a key the Map holds keeps its
\* place and takes the new value
MapSet(map, key, value) ==
  IF \E i \in DOMAIN map : map[i].key = key
  THEN [i \in DOMAIN map |->
          IF map[i].key = key THEN [key |-> key, value |-> value] ELSE map[i]]
  ELSE Append(map, [key |-> key, value |-> value])

\* Map.prototype.delete
MapDelete(map, key) == SelectSeq(map, LAMBDA e : e.key # key)

\* IntelligentCache.delete: the cache object it leaves
Deleted(c, key) ==
  [cache |-> [k \in DOMAIN c.cache \ {key} |-> c.cache[k]],
   accessOrder |-> MapDelete(c.accessOrder, key)]

\* Date.now() > entry.expiresAt
IsExpired(entry) == now > entry.expiresAt

\* IntelligentCache.cleanup: the cache object it leaves
cleanup(c) ==
  [cache |-> [k \in {x \in DOMAIN c.cache : ~IsExpired(c.cache[x])} |-> c.cache[k]],
   accessOrder |-> SelectSeq(c.accessOrder,
                     LAMBDA e : ~(e.key \in DOMAIN c.cache /\ IsExpired(c.cache[e.key])))]

\* this.cache.size >= this.maxSize
AtCapacity(c) == Cardinality(DOMAIN c.cache) >= MaxSize

\* this.delete(this.accessOrder.keys().next().value)
EvictLru(c) ==
  IF Len(c.accessOrder) = 0 THEN c ELSE Deleted(c, c.accessOrder[1].key)

\* IntelligentCache.set, up to the insertion: the purge and the eviction
MakeRoom(c) ==
  IF AtCapacity(c)
  THEN IF AtCapacity(cleanup(c)) THEN EvictLru(cleanup(c)) ELSE cleanup(c)
  ELSE c

\* IntelligentCache.set: the cache object it leaves
CacheAfterSet(c, key, value, ttl) ==
  [cache |-> Put(MakeRoom(c).cache, key, [value |-> value, expiresAt |-> now + ttl]),
   accessOrder |-> MapSet(MakeRoom(c).accessOrder, key, now)]

\* the call of the cache that ran last: its name and arguments, the time it
\* ran at and what it returned
NoCacheOp == [seq |-> 0, op |-> "none", key |-> "", ttl |-> 0, at |-> 0, result |-> null]

CacheRan(op, key) ==
  [NoCacheOp EXCEPT !.seq = 1 - cacheOp.seq, !.op = op, !.key = key, !.at = now]

\* the variables the cache leaves alone
notCacheVars ==
  <<storage, started, lastOp, queueVars, plannerVars,
    syncVars, raceVars, fetchVars, networkVars>>

set(key, value, ttl) ==
  /\ cache' = CacheAfterSet(CacheObject, key, value, ttl).cache
  /\ accessOrder' = CacheAfterSet(CacheObject, key, value, ttl).accessOrder
  /\ cacheOp' = [CacheRan("set", key) EXCEPT !.ttl = ttl]
  /\ UNCHANGED <<now, notCacheVars>>

get(key) ==
  /\ IF key \notin DOMAIN cache
     THEN /\ cacheOp' = CacheRan("get", key)
          /\ UNCHANGED <<cache, accessOrder>>
     ELSE IF IsExpired(cache[key])
     THEN /\ cache' = Deleted(CacheObject, key).cache
          /\ accessOrder' = Deleted(CacheObject, key).accessOrder
          /\ cacheOp' = CacheRan("get", key)
     ELSE /\ accessOrder' = MapSet(accessOrder, key, now)
          /\ cacheOp' = [CacheRan("get", key) EXCEPT !.result = cache[key].value]
          /\ UNCHANGED cache
  /\ UNCHANGED <<now, notCacheVars>>

delete(key) ==
  /\ cache' = Deleted(CacheObject, key).cache
  /\ accessOrder' = Deleted(CacheObject, key).accessOrder
  /\ cacheOp' = CacheRan("delete", key)
  /\ UNCHANGED <<now, notCacheVars>>

clear ==
  /\ cache' = EmptyObject
  /\ accessOrder' = <<>>
  /\ cacheOp' = CacheRan("clear", "")
  /\ UNCHANGED <<now, notCacheVars>>

CacheSet == \E key \in CacheKeys, value \in CacheValues, ttl \in TTLs : set(key, value, ttl)

CacheGet == \E key \in CacheKeys : get(key)

CacheDelete == \E key \in CacheKeys : delete(key)

CacheClear == clear

CacheTick ==
  /\ now < CacheMaxTime
  /\ now' = now + 1
  /\ UNCHANGED <<cacheVars, notCacheVars>>

CacheInit ==
  /\ cache = EmptyObject
  /\ accessOrder = <<>>
  /\ cacheOp = NoCacheOp

(* ------------------------------------- OfflineQueue (offlineSupport.js) *)

\* the capacity of the queue in the model (this.maxQueueSize)
MaxQueueSize == 2

\* the background script starts again at most MaxRestarts times, and the queue
\* is cleared at most MaxClears times
MaxRestarts == 1

MaxClears == 1

\* the clock of the queue runs from 1 to QueueMaxTime
QueueMaxTime == 2

\* the ids generateId gives the queue items, in the order it gives them
OpIds == {"X", "Y", "Z"}

IdOrder == <<"X", "Y", "Z">>

\* the types of operations: a follow, and a sync_data, which executeSyncData
\* always rejects
OpTypes == {"follow", "sync_data"}

Operation(type) == [type |-> type, data |-> [targetUserId |-> 1, jwtToken |-> "jwt"]]

\* the operations the callers enqueue while the extension runs
Operations == {Operation("follow")}

\* this.retryDelays
retryDelays == <<1000, 5000, 15000, 30000, 60000>>

\* this.retryDelays[i] || this.retryDelays[this.retryDelays.length - 1], i from 0
RetryDelay(i) == IF i + 1 \in DOMAIN retryDelays THEN retryDelays[i + 1] ELSE retryDelays[Len(retryDelays)]

\* MaxRetries with one retry more
MaxRetries_OneMore == Len(retryDelays)

\* maxRetries: this.retryDelays.length - 1
MaxRetries == Len(retryDelays) - 1

\* the queue item enqueue creates
QueueItem(id, operation) ==
  [id |-> id, operation |-> operation, timestamp |-> now, retryCount |-> 0,
   maxRetries |-> MaxRetries, nextRetry |-> now + retryDelays[1]]

\* PersistItem with the token left in place
PersistItem_KeepsToken(item) == item

\* persistQueue, the item it stores: jwtToken is set to undefined, and a
\* property that is undefined is not stored
PersistItem(item) ==
  [item EXCEPT !.operation.data = [k \in DOMAIN @ \ {"jwtToken"} |-> @[k]]]

\* an entry of this.queue that is undefined
Undefined == "undefined"

\* persistQueue throws inside its try block: item.operation of an undefined entry
PersistThrows(q) == \E i \in DOMAIN q : q[i] = Undefined

\* persistQueue: the store it leaves (the catch block only logs)
persistQueue(st, q, items) ==
  IF PersistThrows(q) THEN st
  ELSE Put(st, "offlineQueue", [i \in DOMAIN q |-> PersistItem(items[q[i]])])

\* the queue after this.queue.shift()
Shift(q) == IF Len(q) = 0 THEN q ELSE Tail(q)

\* the queue after this.queue.push(this.queue.shift()): shift() of an empty
\* queue is undefined
Requeue(q) == IF Len(q) = 0 THEN <<Undefined>> ELSE Append(Tail(q), Head(q))

\* the ids and the items of the stored queue, as loadQueue assigns them
StoredQueue(st) ==
  IF "offlineQueue" \in DOMAIN st
  THEN [i \in DOMAIN st.offlineQueue |-> st.offlineQueue[i].id] ELSE <<>>

StoredItem(st, id) ==
  CHOOSE it \in {st.offlineQueue[i] : i \in DOMAIN st.offlineQueue} : it.id = id

\* enqueue: the queue is full
DropsOldest(q) == Len(q) >= MaxQueueSize

\* executeOperation may succeed (the answer of the remote service)
MaySucceed(operation) == operation.type = "follow"

\* the result processQueue pushes for an item
Result(id, success) ==
  [id |-> id, success |-> success, maxRetriesReached |-> ~success]

\* the history of the queue: the step that ran last, the ids in the order
\* they were enqueued or loaded, the number of times each operation was
\* executed, the number of terminal failures reported for it, the operations
\* that succeeded in the order they did, the number of passes in flight, the
\* number of times the script started again and the queue was cleared
NoQueueLog ==
  [op |-> "none", enqueued |-> <<>>,
   attempts |-> [i \in OpIds |-> 0], terminal |-> [i \in OpIds |-> 0],
   succeeded |-> <<>>, inFlight |-> 0, restarts |-> 0, clears |-> 0]

QueueRan(op) == [queueLog EXCEPT !.op = op]

\* the pass of processQueue: where it stands, its item and its results
NoPass == [pc |-> "idle", item |-> "", results |-> <<>>]

\* the variables the queue leaves alone
notQueueVars == <<lastOp, cacheVars, plannerVars, syncVars, raceVars, fetchVars, networkVars>>

\* initializeOfflineSupport: loadQueue
loadQueue ==
  /\ ~started
  /\ started' = TRUE
  /\ IF "offlineQueue" \in DOMAIN storage
     THEN /\ queue' = [i \in DOMAIN storage.offlineQueue |-> storage.offlineQueue[i].id]
          /\ queueItems' = [id \in {storage.offlineQueue[i].id : i \in DOMAIN storage.offlineQueue} |->
                              (CHOOSE it \in {storage.offlineQueue[i] : i \in DOMAIN storage.offlineQueue} :
                                 it.id = id)]
          /\ queueLog' = [QueueRan("loadQueue") EXCEPT
                            !.enqueued = [i \in DOMAIN storage.offlineQueue |-> storage.offlineQueue[i].id],
                            !.attempts = [id \in OpIds |->
                                            IF \E i \in DOMAIN storage.offlineQueue : storage.offlineQueue[i].id = id
                                            THEN (CHOOSE it \in {storage.offlineQueue[i] : i \in DOMAIN storage.offlineQueue} :
                                                    it.id = id).retryCount
                                            ELSE 0]]
     ELSE /\ queueLog' = QueueRan("loadQueue")
          /\ UNCHANGED <<queue, queueItems>>
  /\ UNCHANGED <<storage, now, isProcessing, pass, pendingEnqueue, notQueueVars>>

\* enqueue, up to the await of persistQueue
enqueue(id, operation) ==
  /\ started
  /\ pendingEnqueue = ""
  /\ id \notin DOMAIN queueItems
  /\ \A i \in DOMAIN IdOrder : IdOrder[i] = id => \A j \in 1..(i - 1) : IdOrder[j] \in DOMAIN queueItems
  /\ queue' = Append(IF DropsOldest(queue) THEN Shift(queue) ELSE queue, id)
  /\ queueItems' = Put(queueItems, id, QueueItem(id, operation))
  /\ storage' = persistQueue(storage, queue', queueItems')
  /\ pendingEnqueue' = id
  /\ queueLog' = [QueueRan("enqueue") EXCEPT !.enqueued = Append(@, id)]
  /\ UNCHANGED <<now, started, isProcessing, pass, notQueueVars>>

Enqueue == \E id \in OpIds, operation \in Operations : enqueue(id, operation)

\* enqueue returns the id of the item
EnqueueReturns ==
  /\ pendingEnqueue # ""
  /\ pendingEnqueue' = ""
  /\ queueLog' = QueueRan("enqueueReturns")
  /\ UNCHANGED <<storage, now, started, queue, queueItems, isProcessing, pass, notQueueVars>>

\* ReturnsAtOnce without the test of the flag
ReturnsAtOnce_IgnoresFlag == Len(queue) = 0

\* processQueue: this.isProcessing || this.queue.length === 0
ReturnsAtOnce == isProcessing \/ Len(queue) = 0

\* the body of processQueue, up to the first await of executeOperation
StartsPass ==
  IF ReturnsAtOnce
  THEN /\ queueLog' = QueueRan("processQueueReturnsAtOnce")
       /\ UNCHANGED <<isProcessing, pass>>
  ELSE IF Head(queue) = Undefined
  THEN \* item.operation throws, item.retryCount++ throws in the catch block
       /\ isProcessing' = TRUE
       /\ pass' = NoPass
       /\ queueLog' = QueueRan("processQueueThrows")
  ELSE /\ isProcessing' = TRUE
       /\ pass' = [pc |-> "executing", item |-> Head(queue), results |-> <<>>]
       /\ queueLog' = [QueueRan("processQueue") EXCEPT
                         !.inFlight = @ + 1,
                         !.attempts[Head(queue)] = @ + 1]

\* processQueue, called by the application
processQueue ==
  /\ started
  /\ StartsPass
  /\ UNCHANGED <<storage, now, started, queue, queueItems, pendingEnqueue, notQueueVars>>

\* the pass goes on after the item: the next item of the loop, or, when the
\* queue is empty or the pass breaks, persistQueue
PassGoesOn(q, items, results, op, breaks) ==
  /\ queue' = q
  /\ queueItems' = items
  /\ IF Len(q) > 0 /\ ~breaks /\ Head(q) = Undefined
     THEN /\ pass' = NoPass
          /\ queueLog' = [op EXCEPT !.op = "passThrows", !.inFlight = @ - 1]
          /\ UNCHANGED storage
     ELSE IF Len(q) > 0 /\ ~breaks
     THEN /\ pass' = [pc |-> "executing", item |-> Head(q), results |-> results]
          /\ queueLog' = [op EXCEPT !.attempts[Head(q)] = @ + 1]
          /\ UNCHANGED storage
     ELSE /\ pass' = [pc |-> "persisting", item |-> "", results |-> results]
          /\ queueLog' = op
          /\ storage' = persistQueue(storage, q, items)

\* executeOperation resolves: the item is removed and the loop goes on
ExecuteSucceeds ==
  /\ pass.pc = "executing"
  /\ MaySucceed(queueItems[pass.item].operation)
  /\ PassGoesOn(Shift(queue), queueItems,
                Append(pass.results, Result(pass.item, TRUE)),
                [QueueRan("succeeds") EXCEPT !.succeeded = Append(@, pass.item)],
                FALSE)
  /\ UNCHANGED <<now, started, isProcessing, pendingEnqueue, notQueueVars>>

\* executeOperation rejects: the catch block
ExecuteFails ==
  /\ pass.pc = "executing"
  /\ LET item == queueItems[pass.item]
         retryCount == item.retryCount + 1
     IN IF retryCount > item.maxRetries
        THEN PassGoesOn(Shift(queue),
                        [queueItems EXCEPT ![pass.item].retryCount = retryCount],
                        Append(pass.results, Result(pass.item, FALSE)),
                        [QueueRan("fails") EXCEPT !.terminal[pass.item] = @ + 1],
                        FALSE)
        ELSE PassGoesOn(Requeue(queue),
                        [queueItems EXCEPT ![pass.item].retryCount = retryCount,
                                           ![pass.item].nextRetry = now + RetryDelay(retryCount)],
                        pass.results,
                        QueueRan("fails"),
                        TRUE)
  /\ UNCHANGED <<now, started, isProcessing, pendingEnqueue, notQueueVars>>

\* the persistQueue of the pass is done: the pass returns its results
PassReturns ==
  /\ pass.pc = "persisting"
  /\ isProcessing' = FALSE
  /\ pass' = NoPass
  /\ queueLog' = [QueueRan("passReturns") EXCEPT !.inFlight = @ - 1]
  /\ UNCHANGED <<storage, now, started, queue, queueItems, pendingEnqueue, notQueueVars>>

\* clearQueue: this.queue = [], persistQueue
clearQueue ==
  /\ started
  /\ queueLog.clears < MaxClears
  /\ queue' = <<>>
  /\ storage' = persistQueue(storage, <<>>, queueItems)
  /\ queueLog' = [QueueRan("clearQueue") EXCEPT !.clears = @ + 1]
  /\ UNCHANGED <<now, started, queueItems, isProcessing, pass, pendingEnqueue, notQueueVars>>

\* the background script stops and starts again: a new OfflineQueue, and
\* initializeOfflineSupport loads the stored queue into it (the items of the
\* process that stopped stay in queueItems, out of reach, so that their ids
\* are not given again)
Restart ==
  /\ started
  /\ queueLog.restarts < MaxRestarts
  /\ queue' = StoredQueue(storage)
  /\ queueItems' = [id \in DOMAIN queueItems \cup {StoredQueue(storage)[i] : i \in DOMAIN StoredQueue(storage)} |->
                      IF \E i \in DOMAIN StoredQueue(storage) : StoredQueue(storage)[i] = id
                      THEN StoredItem(storage, id) ELSE queueItems[id]]
  /\ isProcessing' = FALSE
  /\ pass' = NoPass
  /\ pendingEnqueue' = ""
  /\ queueLog' = [QueueRan("restart") EXCEPT !.inFlight = 0, !.restarts = @ + 1]
  /\ UNCHANGED <<storage, now, started, notQueueVars>>

QueueTick ==
  /\ started
  /\ now < QueueMaxTime
  /\ now' = now + 1
  /\ UNCHANGED <<storage, started, queueVars, notQueueVars>>

\* the listener initializeOfflineSupport adds to the network monitor, once
\* its loadQueue is done
ListenerCalled(online) ==
  IF started /\ online /\ Len(queue) > 0
  THEN StartsPass
  ELSE UNCHANGED <<isProcessing, pass, queueLog>>

\* the online event: NetworkMonitor sets isOnline and notifies its listeners
GoesOnline ==
  /\ ~isOnline
  /\ isOnline' = TRUE
  /\ ListenerCalled(isOnline')
  /\ UNCHANGED <<storage, now, started, lastOp, queue, queueItems, pendingEnqueue,
                 cacheVars, plannerVars, syncVars, raceVars, fetchVars>>

\* the offline event
GoesOffline ==
  /\ isOnline
  /\ isOnline' = FALSE
  /\ ListenerCalled(isOnline')
  /\ UNCHANGED <<storage, now, started, lastOp, queue, queueItems, pendingEnqueue,
                 cacheVars, plannerVars, syncVars, raceVars, fetchVars>>

\* new NetworkMonitor(): navigator.onLine, in a browser that is online
NetworkInit == isOnline = TRUE

QueueInit ==
  /\ queue = <<>>
  /\ queueItems = EmptyObject
  /\ isProcessing = FALSE
  /\ pass = NoPass
  /\ pendingEnqueue = ""
  /\ queueLog = NoQueueLog

(* ------------------------------ IncrementalSyncManager (retryUtils.js) *)

\* this.syncIntervals, in milliseconds
syncIntervals ==
  [full |-> 24 * 60 * 60 * 1000,
   incremental |-> 4 * 60 * 60 * 1000,
   quick |-> 30 * 60 * 1000]

\* the times since a sync at which the planner is asked: the thresholds, one
\* millisecond less and one more
Elapsed ==
  {0} \cup UNION {{syncIntervals[k] - 1, syncIntervals[k], syncIntervals[k] + 1} :
                    k \in DOMAIN syncIntervals}

\* the instants of the planner's clock: a first sync at 1, then these times later
Instants == {1 + e : e \in Elapsed}

\* getLastSyncTime: result.syncTimes?.[dataType] || null
getLastSyncTime(st, dataType) ==
  IF "syncTimes" \in DOMAIN st /\ dataType \in DOMAIN st.syncTimes
  THEN st.syncTimes[dataType] ELSE NullTime

\* determineSyncStrategy: the type it returns
StrategyType(lastSync) ==
  IF lastSync = NullTime \/ now - lastSync > syncIntervals.full THEN "full"
  ELSE IF now - lastSync > syncIntervals.incremental THEN "incremental"
  ELSE IF now - lastSync > syncIntervals.quick THEN "quick"
  ELSE "skip"

\* getNextSyncTime: what it returns (Date.now() alone when never synced)
NextSyncTime(lastSync) ==
  IF lastSync = NullTime THEN [time |-> now]
  ELSE IF now >= lastSync + syncIntervals.full THEN [type |-> "full", time |-> now]
  ELSE IF now >= lastSync + syncIntervals.incremental THEN [type |-> "incremental", time |-> now]
  ELSE IF now >= lastSync + syncIntervals.quick THEN [type |-> "quick", time |-> now]
  ELSE [type |-> "quick", time |-> lastSync + syncIntervals.quick,
        timeUntil |-> lastSync + syncIntervals.quick - now]

\* the call of the planner that ran last
NoPlan == [op |-> "none", dataType |-> "", at |-> 0, lastSync |-> NullTime,
           type |-> "", next |-> EmptyObject]

\* the variables the planner leaves alone
notPlannerVars ==
  <<started, lastOp, cacheVars, queueVars, syncVars,
    raceVars, fetchVars, networkVars>>

determineSyncStrategy(dataType) ==
  /\ planned' = [NoPlan EXCEPT
                   !.op = "determineSyncStrategy", !.dataType = dataType, !.at = now,
                   !.lastSync = getLastSyncTime(storage, dataType),
                   !.type = StrategyType(getLastSyncTime(storage, dataType))]
  /\ UNCHANGED <<storage, now, notPlannerVars>>

getNextSyncTime(dataType) ==
  /\ planned' = [NoPlan EXCEPT
                   !.op = "getNextSyncTime", !.dataType = dataType, !.at = now,
                   !.lastSync = getLastSyncTime(storage, dataType),
                   !.next = NextSyncTime(getLastSyncTime(storage, dataType))]
  /\ UNCHANGED <<storage, now, notPlannerVars>>

\* updateLastSyncTime: the store it leaves
WithLastSyncTime(st, dataType, timestamp) ==
  Put(st, "syncTimes",
      Put(IF "syncTimes" \in DOMAIN st THEN st.syncTimes ELSE EmptyObject,
          dataType, timestamp))

\* updateLastSyncTime(dataType, timestamp = Date.now())
updateLastSyncTime(dataType) ==
  /\ storage' = WithLastSyncTime(storage, dataType, now)
  /\ planned' = [NoPlan EXCEPT !.op = "updateLastSyncTime", !.dataType = dataType, !.at = now]
  /\ UNCHANGED <<now, notPlannerVars>>

DetermineSyncStrategy == \E dataType \in Directions : determineSyncStrategy(dataType)

GetNextSyncTime == \E dataType \in Directions : getNextSyncTime(dataType)

UpdateLastSyncTime == \E dataType \in Directions : updateLastSyncTime(dataType)

\* time passes, up to one of the instants
PlannerTick ==
  /\ \E t \in Instants : t > now /\ now' = t
  /\ UNCHANGED <<storage, plannerVars, notPlannerVars>>

PlannerInit == planned = NoPlan

(* ------------------------------------------------ smartSync (retryUtils.js) *)

\* the totalUsers the remote service reports on a page
SyncCounts == 0 .. 2

\* the instants of the clock while syncs run: a little over every 12 hours,
\* and once just after the quick interval
SyncInstants ==
  {1 + k * (12 * 60 * 60 * 1000 + 1) : k \in 0 .. 3} \cup {1 + syncIntervals.quick + 1}

\* getCurrentDataSize: the count it returns
getCurrentDataSize(st, dataType) ==
  LET followDates == IF "followDates" \in DOMAIN st THEN st.followDates ELSE EmptyObject
      data == IF dataType \in DOMAIN followDates THEN followDates[dataType] ELSE EmptyObject
  IN Cardinality(DOMAIN data)

\* the calls of apiFunction: apiFunction(1) of quickCountCheck fetches the
\* first page, apiFunction() everything
FirstPage == "firstPage"

Everything == "everything"

\* performQuickSync with the count compared with the records that are active
performQuickSync_CountsActive(st, dataType, count) ==
  LET data == IF "followDates" \in DOMAIN st /\ dataType \in DOMAIN st.followDates
              THEN st.followDates[dataType] ELSE EmptyObject
      active == Cardinality({u \in DOMAIN data : data[u].isActive})
  IN [type |-> "quick", hasChanges |-> count # active,
      currentCount |-> active, newCount |-> count,
      fullFetch |-> FALSE, fetches |-> <<FirstPage>>]

\* performQuickSync, with count the count of quickCountCheck
performQuickSync(st, dataType, count) ==
  [type |-> "quick", hasChanges |-> count # getCurrentDataSize(st, dataType),
   currentCount |-> getCurrentDataSize(st, dataType), newCount |-> count,
   fullFetch |-> FALSE, fetches |-> <<FirstPage>>]

\* performIncrementalSync with the full data fetched whatever the count
performIncrementalSync_AlwaysFetches(dataType, count, lastKnownCount) ==
  [type |-> "incremental", hasChanges |-> count # lastKnownCount,
   currentCount |-> lastKnownCount, newCount |-> count,
   fullFetch |-> TRUE, fetches |-> <<FirstPage, Everything>>]

\* performIncrementalSync, with count the count of quickCountCheck: the full
\* data is fetched when the count differs from lastKnownCount
performIncrementalSync(dataType, count, lastKnownCount) ==
  [type |-> "incremental", hasChanges |-> count # lastKnownCount,
   currentCount |-> lastKnownCount, newCount |-> count,
   fullFetch |-> count # lastKnownCount,
   fetches |-> IF count = lastKnownCount THEN <<FirstPage>>
               ELSE <<FirstPage, Everything>>]

\* performFullSync
performFullSync(dataType, count) ==
  [type |-> "full", hasChanges |-> TRUE, currentCount |-> 0, newCount |-> count,
   fullFetch |-> TRUE, fetches |-> <<Everything>>]

\* the switch of smartSync on strategy.type
SyncFunction(st, dataType, type, count) ==
  IF type = "quick" THEN performQuickSync(st, dataType, count)
  ELSE IF type = "incremental"
  THEN performIncrementalSync(dataType, count, getCurrentDataSize(st, dataType))
  ELSE performFullSync(dataType, count)

\* no smartSync in flight
NoSync == [pc |-> "idle", dataType |-> "", type |-> "", startedAt |-> 0,
           result |-> EmptyObject]

\* the history of smartSync: the call that returned last (its data type, the
\* strategy it chose, its result, the store and the time at its start), the
\* count the remote service reported to it, and for each data type the time
\* a full sync returned last
NoSyncLog ==
  [seq |-> 0, op |-> "none", dataType |-> "", type |-> "", startedAt |-> 0,
   before |-> EmptyObject, count |-> 0, result |-> EmptyObject,
   lastFull |-> [d \in Directions |-> NullTime]]

\* the variables smartSync leaves alone
notSyncVars ==
  <<started, lastOp, cacheVars, queueVars, plannerVars,
    raceVars, fetchVars, networkVars>>

\* smartSync up to the return of a skip
SmartSyncSkips(dataType) ==
  /\ sync.pc = "idle"
  /\ StrategyType(getLastSyncTime(storage, dataType)) = "skip"
  /\ syncLog' = [syncLog EXCEPT
                   !.seq = 1 - @, !.op = "smartSync", !.dataType = dataType,
                   !.type = "skip", !.startedAt = now, !.before = storage,
                   !.result = [skipped |-> TRUE]]
  /\ UNCHANGED <<storage, now, sync, notSyncVars>>

\* smartSync up to the call of the sync function
SmartSyncPlans(dataType) ==
  LET type == StrategyType(getLastSyncTime(storage, dataType)) IN
  /\ sync.pc = "idle"
  /\ type # "skip"
  /\ sync' = [NoSync EXCEPT !.pc = "syncing", !.dataType = dataType, !.type = type,
                            !.startedAt = now]
  /\ syncLog' = [syncLog EXCEPT
                   !.op = "plans", !.dataType = dataType, !.type = type,
                   !.startedAt = now, !.before = storage]
  /\ UNCHANGED <<storage, now, notSyncVars>>

\* the sync function returns: const result = await syncFunction()
SyncFunctionReturns(count) ==
  /\ sync.pc = "syncing"
  /\ sync' = [sync EXCEPT !.pc = "updating",
                          !.result = SyncFunction(storage, sync.dataType, sync.type, count)]
  /\ syncLog' = [syncLog EXCEPT !.op = "syncs", !.count = count]
  /\ UNCHANGED <<storage, now, notSyncVars>>

\* await this.updateLastSyncTime(dataType), and the return of smartSync
SmartSyncReturns ==
  /\ sync.pc = "updating"
  /\ storage' = WithLastSyncTime(storage, sync.dataType, now)
  /\ sync' = NoSync
  /\ syncLog' = [syncLog EXCEPT
                   !.seq = 1 - @, !.op = "smartSync", !.result = sync.result,
                   !.lastFull[sync.dataType] = IF sync.type = "full" THEN now ELSE @]
  /\ UNCHANGED <<now, notSyncVars>>

SmartSync ==
  \E dataType \in Directions : SmartSyncSkips(dataType) \/ SmartSyncPlans(dataType)

SyncReturns == \E count \in SyncCounts : SyncFunctionReturns(count)

\* the longest a smartSync in flight waits for the remote service and the store
MaxSyncDuration == syncIntervals.quick + 1

\* time passes, up to one of the instants; a call in flight returns in time
SyncTick ==
  /\ \E t \in SyncInstants :
       /\ t > now
       /\ sync.pc # "idle" => t - sync.startedAt <= MaxSyncDuration
       /\ now' = t
  /\ UNCHANGED <<storage, syncVars, notSyncVars>>

SyncInit == sync = NoSync /\ syncLog = NoSyncLog

(* ------------------------- reconciler calls interleaved (dateUtils.js) *)

\* the callers of the reconciler in the background script: getFollowers and
\* getFollowing, which call registerNew* and then sync*Storage with the list
\* they fetched, and handleFollow, which calls registerFollow
Passes == {"getFollowers", "getFollowing"}

Callers == Passes \cup {"handleFollow"}

\* the direction a caller reconciles
DirOf(p) == IF p = "getFollowers" THEN "followers" ELSE "following"

\* the reconciler calls a caller makes
CallsOf(p) == IF p \in Passes THEN <<"registerNew", "sync">> ELSE <<"registerExplicit">>

\* a caller that has called nothing yet: pc is "idle", "loaded" (between the
\* await of getFollowDates and saveFollowDates) or "done"; step counts its calls
NoCall == [pc |-> "idle", step |-> 0, observed |-> EmptyObject, userId |-> 0,
           username |-> "", followDates |-> EmptyLedger]

\* the reconciler call the caller is in
OpOf(call, p) == CallsOf(p)[call.step]

\* the collection the call leaves in memory from the collection it loaded
CallCollection(op, call, stored) ==
  IF op = "registerNew" THEN RegisterNewCollection(stored, call.observed)
  ELSE IF op = "sync" THEN SyncCollection(stored, call.observed)
  ELSE RegisterExplicitCollection(stored, call.userId, call.username)

\* does the call reach its saveFollowDates
CallSaves(op, call, stored) ==
  op = "sync" => SyncSaves(SyncInactivated(stored, call.observed),
                           SyncUpdatedUsernames(stored, call.observed))

\* SavedLedger with the collection written into the ledger read anew
SavedLedger_ReadsAnew(st, followDates, dir, collection) ==
  [getFollowDates(st) EXCEPT
     ![dir] = [u \in DOMAIN @ \cup DOMAIN collection |->
                 IF u \in DOMAIN collection THEN collection[u] ELSE @[u]]]

\* the object the call passes to saveFollowDates: the followDates it loaded,
\* with the collection of its direction as it mutated it
SavedLedger(st, followDates, dir, collection) ==
  [followDates EXCEPT ![dir] = collection]

\* the history of the writes: the ledger the calls would have left had each
\* run alone in the order of their writes (serial), and the subjects for whom
\* registerFollow inserted a record since the call of that caller loaded
NoRaceLog ==
  [serial |-> EmptyLedger, insertedSince |-> [p \in Callers |-> {}]]

\* the variables the interleaved calls leave alone
notRaceVars ==
  <<started, lastOp, cacheVars, queueVars, plannerVars,
    syncVars, fetchVars, networkVars>>

\* a reconciler call up to the end of await getFollowDates()
CallLoads(p, observed, userId, username) ==
  /\ calls[p].pc = "idle"
  /\ calls[p].step < Len(CallsOf(p))
  /\ calls[p].step > 0 => observed = calls[p].observed
  /\ storage' = initializeStorage(storage)
  /\ calls' = [calls EXCEPT
                 ![p] = [pc |-> "loaded", step |-> calls[p].step + 1,
                         observed |-> observed, userId |-> userId, username |-> username,
                         followDates |-> getFollowDates(storage)]]
  /\ raceLog' = [raceLog EXCEPT !.insertedSince[p] = {}]
  /\ UNCHANGED <<now, notRaceVars>>

\* the rest of the call: the mutation in memory and saveFollowDates
CallPersists(p) ==
  LET call == calls[p]
      op == OpOf(call, p)
      dir == DirOf(p)
      collection == CallCollection(op, call, call.followDates[dir])
      inserts == IF op = "registerExplicit" /\ call.userId \notin DOMAIN call.followDates[dir]
                 THEN {call.userId} ELSE {}
  IN /\ call.pc = "loaded"
     /\ storage' = IF CallSaves(op, call, call.followDates[dir])
                   THEN saveFollowDates(storage, SavedLedger(storage, call.followDates, dir, collection))
                   ELSE storage
     /\ calls' = [calls EXCEPT
                    ![p].pc = IF call.step < Len(CallsOf(p)) THEN "idle" ELSE "done"]
     /\ raceLog' =
          [serial |-> IF CallSaves(op, call, raceLog.serial[dir])
                      THEN [raceLog.serial EXCEPT
                              ![dir] = CallCollection(op, call, raceLog.serial[dir])]
                      ELSE raceLog.serial,
           insertedSince |-> [q \in Callers |->
                                IF q # p /\ calls[q].pc = "loaded"
                                THEN raceLog.insertedSince[q] \cup inserts
                                ELSE raceLog.insertedSince[q]]]
     /\ UNCHANGED <<now, notRaceVars>>

\* getFollowers / getFollowing: await registerNew*(list), await sync*Storage(list)
PassLoads ==
  \E p \in Passes : \E observed \in Snapshots(DirOf(p)) : CallLoads(p, observed, 0, "")

\* handleFollow: await registerFollow(targetUserId, username)
FollowLoads ==
  \E u \in IdsOf("following") : \E n \in ExplicitNamesOf("following", u) :
    CallLoads("handleFollow", EmptyObject, u, n)

Persists == \E p \in Callers : CallPersists(p)

\* time passes
RaceTick ==
  /\ now < MaxTime
  /\ now' = now + 1
  /\ UNCHANGED <<storage, raceVars, notRaceVars>>

RaceInit == calls = [p \in Callers |-> NoCall] /\ raceLog = NoRaceLog

(* ------------- getFollowers and getFollowing (background script) *)

\* the users the remote service returns on a page (pageSize=500 in the code)
PageSize == 1

\* the calls of each of getFollowers and getFollowing that are followed
MaxRuns == 1

\* cursor = null
NullCursor == 0

\* maxAttempts of withRetry, as getFollowers and getFollowing pass it
maxAttempts == 3

\* the users of the page after the cursor
PageIds(snapshot, cursor) ==
  {u \in DOMAIN snapshot :
     /\ u > cursor
     /\ Cardinality({v \in DOMAIN snapshot : v > cursor /\ v < u}) < PageSize}

\* followers.users of the response
PageUsers(snapshot, cursor) == [u \in PageIds(snapshot, cursor) |-> snapshot[u]]

\* followers.cursor of the response: null on the last page
PageCursor(snapshot, cursor) ==
  LET ids == PageIds(snapshot, cursor)
      last == CHOOSE u \in ids : \A v \in ids : v <= u
  IN IF ids # {} /\ \E u \in DOMAIN snapshot : u > last THEN last ELSE NullCursor

\* allFollowers replaced by the users of the page
Accumulate_KeepsLastPage(allUsers, users) == users

\* allFollowers = [...allFollowers, ...followers.users]
Accumulate(allUsers, users) ==
  [u \in DOMAIN allUsers \cup DOMAIN users |->
     IF u \in DOMAIN users THEN users[u] ELSE allUsers[u]]

\* updateSyncStats: result.metadata || {}
LoadedMetadata(st) == IF "metadata" \in DOMAIN st THEN st.metadata ELSE EmptyObject

\* updateSyncStats: the metadata it passes to chrome.storage.local.set
UpdatedMetadata(metadata, duration, newFollowers, newFollowing) ==
  LET syncStats == IF "syncStats" \in DOMAIN metadata THEN metadata.syncStats
                   ELSE [totalSyncs |-> 0, lastSyncDuration |-> 0,
                         averageSyncDuration |-> Whole(0)]
      totalSyncs == syncStats.totalSyncs + 1
  IN Put(Put(Put(metadata, "lastSync", now),
             "syncStats",
             [totalSyncs |-> totalSyncs,
              lastSyncDuration |-> duration,
              averageSyncDuration |->
                Over(Plus(Times(syncStats.averageSyncDuration, totalSyncs - 1), duration),
                     totalSyncs)]),
         "lastSyncResults",
         [newFollowers |-> newFollowers, newFollowing |-> newFollowing, timestamp |-> now])

\* the condition of notifyContentScripts at the end of getFollowers and
\* getFollowing
Notifies(inactivatedRecords, updatedUsernames) ==
  inactivatedRecords > 0 \/ updatedUsernames > 0

\* no call in flight. pc is "idle", "fetching" (in the loop over the pages),
\* "registering", "syncing", "timing" (before updateSyncStats),
\* "statsLoaded" (between the get and the set of updateSyncStats). registered
\* and synced count the reconciler calls of the call, before and after are
\* the collection at its registerNew* and after its sync*Storage
NoFetch ==
  [pc |-> "idle", runs |-> 0, startTime |-> 0, snapshot |-> EmptyObject,
   allUsers |-> EmptyObject, cursor |-> NullCursor, pages |-> 0, attempt |-> 1,
   registered |-> 0, synced |-> 0, observed |-> EmptyObject, newCount |-> 0,
   inactivatedRecords |-> 0, updatedUsernames |-> 0, duration |-> 0,
   metadata |-> EmptyObject, before |-> EmptyObject, after |-> EmptyObject]

\* the history of the calls: the updateSyncStats calls that have completed
\* and the sum of their durations, and the call that ended last (its caller,
\* the pages it had fetched, whether it threw, whether it notified the
\* content scripts)
NoFetchLog ==
  [completed |-> 0, durations |-> 0,
   last |-> [seq |-> 0, pass |-> "", pages |-> 0, threw |-> FALSE, notified |-> FALSE]]

\* the variables getFollowers and getFollowing leave alone
notFetchVars ==
  <<started, lastOp, cacheVars, queueVars, plannerVars,
    syncVars, raceVars, networkVars>>

\* the call up to its first fetch
FetchStarts(p, snapshot) ==
  /\ fetches[p].pc = "idle"
  /\ fetches[p].runs < MaxRuns
  /\ fetches' = [fetches EXCEPT
                   ![p] = [NoFetch EXCEPT !.pc = "fetching", !.runs = fetches[p].runs + 1,
                                           !.startTime = now, !.snapshot = snapshot]]
  /\ UNCHANGED <<storage, now, fetchLog, notFetchVars>>

\* a page arrives: one iteration of the do-while loop
PageArrives(p) ==
  LET call == fetches[p]
      cursor == PageCursor(call.snapshot, call.cursor)
  IN /\ call.pc = "fetching"
     /\ fetches' = [fetches EXCEPT
                      ![p].allUsers = Accumulate(call.allUsers,
                                                 PageUsers(call.snapshot, call.cursor)),
                      ![p].cursor = cursor,
                      ![p].pages = call.pages + 1,
                      ![p].attempt = 1,
                      ![p].pc = IF cursor # NullCursor THEN "fetching" ELSE "registering"]
     /\ UNCHANGED <<storage, now, fetchLog, notFetchVars>>

\* an attempt of withRetry fails: it is made again, or the error is thrown
\* through the catch of the call
AttemptFails(p, retryable) ==
  LET call == fetches[p] IN
  /\ call.pc = "fetching"
  /\ IF call.attempt < maxAttempts /\ retryable
     THEN /\ fetches' = [fetches EXCEPT ![p].attempt = call.attempt + 1]
          /\ UNCHANGED fetchLog
     ELSE /\ fetches' = [fetches EXCEPT ![p] = [NoFetch EXCEPT !.runs = call.runs]]
          /\ fetchLog' = [fetchLog EXCEPT
                            !.last = [seq |-> 1 - fetchLog.last.seq, pass |-> p,
                                      pages |-> call.pages,
                                      threw |-> TRUE, notified |-> FALSE]]
  /\ UNCHANGED <<storage, now, notFetchVars>>

\* await registerNewFollowers(allFollowers)
FetchRegistersNew(p) ==
  LET call == fetches[p]
      dir == DirOf(p)
      st0 == initializeStorage(storage)
      followDates == getFollowDates(st0)
  IN /\ call.pc = "registering"
     /\ storage' = saveFollowDates(st0,
                     [followDates EXCEPT
                        ![dir] = RegisterNewCollection(followDates[dir], call.allUsers)])
     /\ fetches' = [fetches EXCEPT
                      ![p].pc = "syncing",
                      ![p].registered = call.registered + 1,
                      ![p].observed = call.allUsers,
                      ![p].before = followDates[dir],
                      ![p].newCount = Cardinality(NewlyRegistered(followDates[dir],
                                                                  call.allUsers))]
     /\ UNCHANGED <<now, fetchLog, notFetchVars>>

\* await syncFollowersStorage(allFollowers)
FetchSyncs(p) ==
  LET call == fetches[p]
      dir == DirOf(p)
      st0 == initializeStorage(storage)
      followDates == getFollowDates(st0)
      inactivated == SyncInactivated(followDates[dir], call.allUsers)
      updatedUsernames == SyncUpdatedUsernames(followDates[dir], call.allUsers)
      saved == IF SyncSaves(inactivated, updatedUsernames)
               THEN saveFollowDates(st0,
                      [followDates EXCEPT
                         ![dir] = SyncCollection(followDates[dir], call.allUsers)])
               ELSE st0
  IN /\ call.pc = "syncing"
     /\ call.observed = call.allUsers
     /\ storage' = saved
     /\ fetches' = [fetches EXCEPT
                      ![p].pc = "timing",
                      ![p].synced = call.synced + 1,
                      ![p].inactivatedRecords = Cardinality(inactivated),
                      ![p].updatedUsernames = updatedUsernames,
                      ![p].after = saved.followDates[dir]]
     /\ UNCHANGED <<now, fetchLog, notFetchVars>>

\* const duration = Date.now() - startTime, and updateSyncStats up to the end
\* of its await chrome.storage.local.get
StatsLoads(p) ==
  /\ fetches[p].pc = "timing"
  /\ fetches' = [fetches EXCEPT
                   ![p].pc = "statsLoaded",
                   ![p].duration = now - fetches[p].startTime,
                   ![p].metadata = LoadedMetadata(storage)]
  /\ UNCHANGED <<storage, now, fetchLog, notFetchVars>>

\* the rest of updateSyncStats (its set), and the call to its return: the
\* content scripts are notified on the condition
StatsPersists(p) ==
  LET call == fetches[p] IN
  /\ call.pc = "statsLoaded"
  /\ storage' = Put(storage, "metadata",
                    IF p = "getFollowers"
                    THEN UpdatedMetadata(call.metadata, call.duration, call.newCount, 0)
                    ELSE UpdatedMetadata(call.metadata, call.duration, 0, call.newCount))
  /\ fetches' = [fetches EXCEPT ![p] = [NoFetch EXCEPT !.runs = call.runs]]
  /\ fetchLog' = [completed |-> fetchLog.completed + 1,
                  durations |-> fetchLog.durations + call.duration,
                  last |-> [seq |-> 1 - fetchLog.last.seq, pass |-> p,
                            pages |-> call.pages, threw |-> FALSE,
                            notified |-> Notifies(call.inactivatedRecords,
                                                  call.updatedUsernames)]]
  /\ UNCHANGED <<now, notFetchVars>>

\* the followers and the following the remote service holds while the calls
\* run: the follower 1 under a username, the placeholder or none, or nobody;
\* nobody followed, or two people (two pages)
ServiceSnapshots(dir) ==
  IF dir = "followers"
  THEN {EmptyObject} \cup {[u \in {1} |-> n] : n \in {"a", "a2", "Unknown"}}
  ELSE {EmptyObject, [u \in {1, 2} |-> IF u = 1 THEN "a" ELSE "b"]}

GetFollowers ==
  \E snapshot \in ServiceSnapshots("followers") : FetchStarts("getFollowers", snapshot)

GetFollowing ==
  \E snapshot \in ServiceSnapshots("following") : FetchStarts("getFollowing", snapshot)

PageReturns == \E p \in Passes : PageArrives(p)

FetchFails == \E p \in Passes : \E retryable \in BOOLEAN : AttemptFails(p, retryable)

RegistersNew == \E p \in Passes : FetchRegistersNew(p)

Syncs == \E p \in Passes : FetchSyncs(p)

UpdateSyncStatsLoads == \E p \in Passes : StatsLoads(p)

UpdateSyncStatsPersists == \E p \in Passes : StatsPersists(p)

FetchInit == fetches = [p \in Passes |-> NoFetch] /\ fetchLog = NoFetchLog

\* the parts other than the ledger, as constructed
OthersInit ==
  CacheInit /\ QueueInit /\ PlannerInit /\ SyncInit /\ RaceInit /\ FetchInit /\ NetworkInit

(* -------------------------------------------------------- specification *)

\* the shapes a record written by an earlier release may have
LegacyRecords ==
  {[num |-> 1],
   [timestamp |-> 1, username |-> "a"],
   [timestamp |-> 1, username |-> "a", isActive |-> TRUE],
   [timestamp |-> 1, username |-> "a", isActive |-> FALSE]}

\* a collection of an earlier release: subject 1 in one of the shapes, or nobody
LegacyCollections == {EmptyObject} \cup {[u \in {1} |-> r] : r \in LegacyRecords}

\* the stores the extension may find when it is loaded for the first time:
\* nothing (fresh install), a ledger written before the version tag existed,
\* or such a ledger that has lost one of its two collections (a damaged or
\* hand-edited store: the versioned load does not validate what it reads)
InitialStores ==
  {EmptyObject}
  \cup {[followDates |-> [followers |-> f, following |-> g]] :
          f \in LegacyCollections, g \in LegacyCollections}
  \cup {[followDates |-> [d \in {dir} |-> c]] :
          dir \in Directions, c \in LegacyCollections \ {EmptyObject}}

Init ==
  /\ storage = EmptyObject
  /\ now = 1
  /\ started = FALSE
  /\ lastOp = NoOp
  /\ OthersInit

Next ==
  \/ Startup
  \/ registerNewFollowers
  \/ registerNewFollowing
  \/ syncFollowersStorage
  \/ syncFollowingStorage
  \/ registerFollow
  \/ registerFollower
  \/ removeFollowing
  \/ removeFollower
  \/ Tick

Spec == Init /\ [][Next]_vars

\* a ledger query (getInactiveUsers): getFollowDates loads the ledger, and
\* initializeStorage saves it when it had to migrate it
LoadLedger ==
  /\ started
  /\ storage' = initializeStorage(storage)
  /\ lastOp' = Observe([Ran("") EXCEPT !.op = "load"])
  /\ UNCHANGED <<now, started, otherVars>>

\* the upgrade of an install of an earlier release: the versioned load, then
\* ledger loads and unfollows
InitUpgrade ==
  /\ storage \in InitialStores
  /\ now = 1
  /\ started = FALSE
  /\ lastOp = NoOp
  /\ OthersInit

NextUpgrade ==
  \/ Startup
  \/ LoadLedger
  \/ removeFollowing
  \/ removeFollower
  \/ Tick

SpecUpgrade == InitUpgrade /\ [][NextUpgrade]_vars

\* the detail cache: calls of set, get, delete and clear as time passes
InitCache ==
  /\ storage = EmptyObject
  /\ now = 1
  /\ started = FALSE
  /\ lastOp = NoOp
  /\ OthersInit

NextCache ==
  \/ CacheSet
  \/ CacheGet
  \/ CacheDelete
  \/ CacheClear
  \/ CacheTick

SpecCache == InitCache /\ [][NextCache]_vars

\* the offline queues an earlier run of the extension may have persisted
PersistedQueues ==
  {<<>>} \cup {<<PersistItem(QueueItem("X", Operation(type)))>> : type \in OpTypes}

\* the offline queue: it is loaded, then operations are enqueued and passes
\* of processQueue run, interleaved at their awaits
InitQueue ==
  /\ now = 1
  /\ storage \in {EmptyObject} \cup {[offlineQueue |-> q] : q \in PersistedQueues}
  /\ started = FALSE
  /\ lastOp = NoOp
  /\ OthersInit

NextQueue ==
  \/ loadQueue
  \/ Enqueue
  \/ EnqueueReturns
  \/ processQueue
  \/ ExecuteSucceeds
  \/ ExecuteFails
  \/ PassReturns
  \/ QueueTick

SpecQueue == InitQueue /\ [][NextQueue]_vars

\* the sync planner: the strategy is asked for and syncs are recorded as
\* time passes
InitPlanner ==
  /\ storage = EmptyObject
  /\ now = 1
  /\ started = FALSE
  /\ lastOp = NoOp
  /\ OthersInit

NextPlanner ==
  \/ DetermineSyncStrategy
  \/ GetNextSyncTime
  \/ UpdateLastSyncTime
  \/ PlannerTick

SpecPlanner == InitPlanner /\ [][NextPlanner]_vars

\* the ledgers at the start of the syncs: people followed, some of them no
\* longer (the records syncFollowingStorage has marked inactive)
SyncLedgers ==
  {[followers |-> EmptyObject,
    following |-> [u \in S |-> [timestamp |-> 1, username |-> "a", isActive |-> u \in A]]] :
     S \in SUBSET Ids, A \in SUBSET Ids}

\* smartSync is called for either data type as time passes, on a store that
\* was initialized and has synced
InitSync ==
  /\ now = 1
  /\ \E ledger \in SyncLedgers, n \in {0, 1} :
       storage = [storageVersion |-> CURRENT_STORAGE_VERSION,
                  followDates |-> ledger,
                  metadata |-> [version |-> CURRENT_STORAGE_VERSION, lastSync |-> NullTime,
                                syncStats |-> [totalSyncs |-> n, lastSyncDuration |-> 0,
                                               averageSyncDuration |-> Whole(0)],
                                created |-> 1]]
  /\ started = TRUE
  /\ lastOp = NoOp
  /\ OthersInit

NextSync ==
  \/ SmartSync
  \/ SyncReturns
  \/ SmartSyncReturns
  \/ SyncTick

SpecSync == InitSync /\ [][NextSync]_vars

\* the ledgers the interleaved calls start from
RaceLedgers ==
  {EmptyLedger,
   [followers |-> [u \in {1} |-> [timestamp |-> 1, username |-> "a", isActive |-> TRUE]],
    following |-> [u \in {1} |-> [timestamp |-> 1, username |-> "a", isActive |-> TRUE]]]}

\* the app asks for the followers and the following at once and the user
\* follows somebody meanwhile: the three callers run interleaved at the awaits
\* of their reconciler calls
InitRace ==
  /\ now = 1
  /\ \E ledger \in RaceLedgers :
       /\ storage = [storageVersion |-> CURRENT_STORAGE_VERSION, followDates |-> ledger]
       /\ raceLog = [NoRaceLog EXCEPT !.serial = ledger]
  /\ started = TRUE
  /\ lastOp = NoOp
  /\ CacheInit /\ QueueInit /\ PlannerInit /\ SyncInit /\ FetchInit /\ NetworkInit
  /\ calls = [p \in Callers |-> NoCall]

NextRace ==
  \/ PassLoads
  \/ FollowLoads
  \/ Persists
  \/ RaceTick

SpecRace == InitRace /\ [][NextRace]_vars

\* the life of the offline queue: operations are enqueued and replayed, the
\* queue is cleared, the background script stops and starts again
InitLife ==
  /\ storage = EmptyObject
  /\ now = 1
  /\ started = FALSE
  /\ lastOp = NoOp
  /\ OthersInit

NextLife ==
  \/ loadQueue
  \/ Enqueue
  \/ EnqueueReturns
  \/ processQueue
  \/ ExecuteSucceeds
  \/ ExecuteFails
  \/ PassReturns
  \/ clearQueue
  \/ Restart

SpecLife == InitLife /\ [][NextLife]_vars

\* the offline queue while the network comes and goes: operations are
\* enqueued and replayed and the queue is cleared
NextOnline ==
  \/ loadQueue
  \/ Enqueue
  \/ EnqueueReturns
  \/ processQueue
  \/ ExecuteSucceeds
  \/ ExecuteFails
  \/ PassReturns
  \/ clearQueue
  \/ GoesOnline
  \/ GoesOffline

SpecOnline == InitLife /\ [][NextOnline]_vars

\* the remote service answers every request and the store every write: an
\* execution in flight resolves or rejects, and the pass returns after its
\* persistQueue
SpecLifeFair ==
  /\ SpecLife
  /\ WF_vars(ExecuteSucceeds \/ ExecuteFails)
  /\ WF_vars(PassReturns)

\* the user follows and unfollows people from the page, one request after the
\* other, on a ledger that holds nobody or one person followed or unfollowed
InitFollow ==
  /\ now = 1
  /\ \E following \in {EmptyObject} \cup
          {[u \in {1} |-> [timestamp |-> 1, username |-> n, isActive |-> b]] :
             n \in {"a", "Unknown"}, b \in BOOLEAN} :
       storage = [storageVersion |-> CURRENT_STORAGE_VERSION,
                  followDates |-> [followers |-> EmptyObject, following |-> following]]
  /\ started = TRUE
  /\ lastOp = NoOp
  /\ OthersInit

NextFollow ==
  \/ HandleFollow
  \/ removeFollowing
  \/ Tick

SpecFollow == InitFollow /\ [][NextFollow]_vars

\* the records a ledger may hold before a migration step: a bare timestamp,
\* a partial object, a full object
MigrationRecords ==
  LegacyRecords \cup {[timestamp |-> 1], [username |-> "a"]}

MigrationCollections == {EmptyObject} \cup {[u \in {1} |-> r] : r \in MigrationRecords}

\* migrateV1ToV2 applied to the stored data; its ledger replaces the stored one
ApplyMigrateV1ToV2 ==
  /\ started
  /\ storage' = Put(storage, "followDates", migrateV1ToV2(storage).followDates)
  /\ lastOp' = [Observe([Ran("") EXCEPT !.op = "migrateV1ToV2"]) EXCEPT
                  !.repeated = lastOp.op = "migrateV1ToV2"]
  /\ UNCHANGED <<now, started, otherVars>>

\* migrateDataIfNeeded applied to the stored ledger
ApplyMigrateDataIfNeeded ==
  /\ started
  /\ storage' = Put(storage, "followDates", migrateDataIfNeeded(storage.followDates))
  /\ lastOp' = [Observe([Ran("") EXCEPT !.op = "migrateDataIfNeeded"]) EXCEPT
                  !.repeated = lastOp.op = "migrateDataIfNeeded"]
  /\ UNCHANGED <<now, started, otherVars>>

\* the migration steps applied, in any order and any number of times, to a
\* ledger of an earlier release, as time passes
InitMigration ==
  /\ storage \in {[followDates |-> [followers |-> f, following |-> g]] :
                    f \in MigrationCollections, g \in MigrationCollections}
  /\ now = 1
  /\ started = TRUE
  /\ lastOp = NoOp
  /\ OthersInit

NextMigration ==
  \/ ApplyMigrateV1ToV2
  \/ ApplyMigrateDataIfNeeded
  \/ Tick

SpecMigration == InitMigration /\ [][NextMigration]_vars

\* the ledgers at the start of the fetches: the follower 1 under a username
\* or the placeholder, active or not
FetchLedgers ==
  {EmptyLedger}
  \cup {[followers |-> [u \in {1} |-> [timestamp |-> 1, username |-> n, isActive |-> b]],
         following |-> EmptyObject] : n \in {"a", "Unknown"}, b \in BOOLEAN}

\* the popup asks for the followers and the following at once, again and
\* again as time passes: the calls run interleaved at their awaits
InitFetch ==
  /\ now = 1
  /\ \E ledger \in FetchLedgers :
       storage = [storageVersion |-> CURRENT_STORAGE_VERSION,
                  followDates |-> ledger,
                  metadata |-> [version |-> CURRENT_STORAGE_VERSION, lastSync |-> NullTime,
                                syncStats |-> [totalSyncs |-> 0, lastSyncDuration |-> 0,
                                               averageSyncDuration |-> Whole(0)],
                                created |-> 1]]
  /\ started = TRUE
  /\ lastOp = NoOp
  /\ OthersInit

NextFetch ==
  \/ GetFollowers
  \/ GetFollowing
  \/ PageReturns
  \/ FetchFails
  \/ RegistersNew
  \/ Syncs
  \/ UpdateSyncStatsLoads
  \/ UpdateSyncStatsPersists
  \/ Tick

SpecFetch == InitFetch /\ [][NextFetch]_vars

(* ------------------------------------------------------------- claims *)

ReconcilerOps == {"registerNew", "sync", "registerExplicit", "setInactive"}

\* the step is a call of a reconciler operation
ReconcilerStep == lastOp'.seq # lastOp.seq /\ lastOp'.op \in ReconcilerOps

\* the collection the last operation worked on, as persisted
Persisted == CollectionOf(storage, lastOp.dir)

\* C1: a reconciler call never changes the timestamp of a record that exists:
\* every record of both collections has after the call the timestamp it had
\* before it, so any number of register / inactivate / reactivate cycles
\* leaves the timestamp of the first registration.
C1_TimestampImmutable ==
  [][ReconcilerStep =>
       \A d \in Directions : \A u \in DOMAIN CollectionOf(storage, d) :
          u \in DOMAIN CollectionOf(storage', d) =>
            TimestampOf(CollectionOf(storage', d)[u]) = TimestampOf(CollectionOf(storage, d)[u])]_vars

\* a registerNew has reactivated an inactive subject at a time later than its timestamp
C1_Witness ==
  /\ lastOp.op = "registerNew"
  /\ \E u \in lastOp.wasInactive \cap DOMAIN lastOp.observed :
        /\ Persisted[u].isActive = TRUE
        /\ Persisted[u].timestamp < lastOp.at

\* C2: a reconciler call removes no subject from either collection, and a sync
\* leaves every stored subject that is absent from the snapshot in the
\* collection with isActive = false.
C2_NoDelete ==
  [][ReconcilerStep =>
       /\ \A d \in Directions :
            DOMAIN CollectionOf(storage, d) \subseteq DOMAIN CollectionOf(storage', d)
       /\ lastOp'.op = "sync" =>
            \A u \in DOMAIN CollectionOf(storage, lastOp'.dir) \ DOMAIN lastOp'.observed :
               CollectionOf(storage', lastOp'.dir)[u].isActive = FALSE]_vars

\* a sync has inactivated a subject, which is still stored
C2_Witness ==
  /\ lastOp.op = "sync"
  /\ \E r \in lastOp.inactivated :
        r.userId \in DOMAIN Persisted /\ Persisted[r.userId].isActive = FALSE

\* C3: registerNew returns exactly the observed subjects that had no record;
\* each of them is stored with timestamp = now and isActive = true; an observed
\* subject that was inactive is not returned and is active afterwards.
C3_RegisterNewReturnsInsertions ==
  lastOp.op = "registerNew" =>
    /\ lastOp.newIds = DOMAIN lastOp.observed \ lastOp.hadRecord
    /\ \A u \in lastOp.newIds :
          Persisted[u].timestamp = lastOp.at /\ Persisted[u].isActive = TRUE
    /\ \A u \in DOMAIN lastOp.observed \cap lastOp.hadRecord :
          u \notin lastOp.newIds /\ Persisted[u].isActive = TRUE

\* a registerNew has inserted one subject and reactivated another
C3_Witness ==
  /\ lastOp.op = "registerNew"
  /\ lastOp.newIds # {}
  /\ lastOp.wasInactive \cap DOMAIN lastOp.observed # {}

\* C4: sync reports as inactivated exactly the stored subjects that are absent
\* from the snapshot and were active when it started; a sync that repeats the
\* sync before it (same direction, same snapshot) reports none, and the absent
\* subjects are inactive in the ledger.
C4_DoubleReportGuard ==
  lastOp.op = "sync" =>
    /\ {r.userId : r \in lastOp.inactivated}
         = (lastOp.hadRecord \ lastOp.wasInactive) \ DOMAIN lastOp.observed
    /\ lastOp.repeated =>
         /\ lastOp.inactivated = {}
         /\ \A u \in lastOp.hadRecord \ DOMAIN lastOp.observed :
               Persisted[u].isActive = FALSE

\* a repeated sync has left a stored subject inactive without reporting it
C4_Witness ==
  /\ lastOp.op = "sync"
  /\ lastOp.repeated
  /\ lastOp.hadRecord \ DOMAIN lastOp.observed # {}

\* C5: after a sync every stored subject that is in the snapshot is active in
\* the persisted ledger, also when it was inactive before the call and its
\* username is the observed one.
C5_SyncActivatesObserved ==
  lastOp.op = "sync" =>
    \A u \in lastOp.hadRecord \cap DOMAIN lastOp.observed : Persisted[u].isActive = TRUE

\* the step is a call of registerNew or sync
BulkStep == lastOp'.seq # lastOp.seq /\ lastOp'.op \in {"registerNew", "sync"}

\* the username of subject u of the direction of the step, before and after it
OldName(u) == getFollowDates(storage)[lastOp'.dir][u].username

NewName(u) == CollectionOf(storage', lastOp'.dir)[u].username

\* the step changes a stored username only to a non-empty observed one
OnlyObservedNames ==
  \A u \in DOMAIN CollectionOf(storage, lastOp'.dir) :
     NewName(u) # OldName(u) =>
       /\ u \in DOMAIN lastOp'.observed
       /\ lastOp'.observed[u] # ""
       /\ NewName(u) = lastOp'.observed[u]

\* the stored usernames the step changes
ChangedNames == {u \in DOMAIN CollectionOf(storage, lastOp'.dir) : NewName(u) # OldName(u)}

\* the stored placeholders the step overwrites with an observed "Unknown"
RewrittenPlaceholders ==
  {u \in DOMAIN CollectionOf(storage, lastOp'.dir) \cap DOMAIN lastOp'.observed :
     OldName(u) = "Unknown" /\ lastOp'.observed[u] = "Unknown"}

C7_SetInactiveKeepsRecord ==
  [][lastOp'.seq # lastOp.seq /\ lastOp'.op = "setInactive" =>
       LET d == lastOp'.dir
           u == lastOp'.userId
           before == getFollowDates(storage)[d]
           after == CollectionOf(storage', d)
       IN /\ lastOp'.failed = FALSE
          /\ u \in DOMAIN before =>
               /\ u \in DOMAIN after
               /\ after[u].isActive = FALSE
               /\ after[u].timestamp = before[u].timestamp
               /\ after[u].username = before[u].username
               /\ DOMAIN getDate(storage', d, u) # {}
               /\ getDate(storage', d, u) = getDate(storage, d, u)
               /\ u \in getInactiveUsers(storage', d)
          /\ u \notin DOMAIN before => getFollowDates(storage') = getFollowDates(storage)]_vars

\* a removeFollowing / removeFollower has inactivated an active subject
C7_Witness ==
  /\ lastOp.op = "setInactive"
  /\ lastOp.userId \in lastOp.hadRecord \ lastOp.wasInactive
  /\ Persisted[lastOp.userId].isActive = FALSE

\* C8: the reference scenario on a fresh ledger: registerNew([1:"a"]) returns
\* [1]; sync([1:"a"]) returns no inactivated record and 0 updated usernames;
\* sync([]) returns subject 1 with username "a" and leaves it stored and
\* inactive; registerNew([1:"a2"]) returns nothing and leaves subject 1
\* active, named "a2", with the timestamp of the first call.
C8_ReferenceScenario ==
  /\ lastOp.scenario = 1 => lastOp.newIds = {1}
  /\ lastOp.scenario = 2 => lastOp.inactivated = {} /\ lastOp.updatedUsernames = 0
  /\ lastOp.scenario = 3 =>
       /\ lastOp.inactivated =
            {[userId |-> 1, timestamp |-> lastOp.firstSeenAt, username |-> "a"]}
       /\ 1 \in DOMAIN Persisted
       /\ Persisted[1].isActive = FALSE
  /\ lastOp.scenario = 4 =>
       /\ lastOp.newIds = {}
       /\ Persisted[1] =
            [timestamp |-> lastOp.firstSeenAt, username |-> "a2", isActive |-> TRUE]

\* the scenario has run to its end, its last call later than its first
C8_Witness == lastOp.scenario = 4 /\ lastOp.at > lastOp.firstSeenAt

\* the step is a run of the startup load
StartupStep == lastOp'.seq # lastOp.seq /\ lastOp'.op = "startup"

\* C9: a startup load whose migration step throws writes nothing: the store
\* (the ledger and the version tag with it) is after the load what it was
\* before it.
C9_FailedLoadWritesNothing ==
  [][StartupStep /\ lastOp'.failed => storage' = storage]_vars

\* C10: the versioned migration followed by the next ledger load leaves every
\* record that already had the migrated shape with its timestamp, username
\* and isActive value.
C10_MigratedRecordsPassThrough ==
  [][StartupStep /\ ~lastOp'.failed =>
       \A d \in Directions : \A u \in DOMAIN CollectionOf(storage, d) :
          {"timestamp", "username", "isActive"} \subseteq DOMAIN CollectionOf(storage, d)[u] =>
            /\ u \in DOMAIN getFollowDates(storage')[d]
            /\ getFollowDates(storage')[d][u].timestamp = CollectionOf(storage, d)[u].timestamp
            /\ getFollowDates(storage')[d][u].username = CollectionOf(storage, d)[u].username
            /\ getFollowDates(storage')[d][u].isActive = CollectionOf(storage, d)[u].isActive]_vars

MigrationSteps == {"migrateV1ToV2", "migrateDataIfNeeded"}

CacheStep(op) == cacheOp'.seq # cacheOp.seq /\ cacheOp'.op = op

\* the keys of the access-order map
AccessKeys(map) == {map[i].key : i \in DOMAIN map}

\* the time the cached key was touched last (by set or get)
LastTouched(key) ==
  (CHOOSE e \in {accessOrder[i] : i \in DOMAIN accessOrder} : e.key = key).value

\* C12: set(key, value, ttl) at time t stores the entry with expiresAt = t + ttl;
\* a get of a cached key at time now returns the value if and only if
\* now < expiresAt, and for now >= expiresAt it returns null and the key is
\* gone from both the value map and the access-order map.
C12_TtlBoundary ==
  [][/\ CacheStep("set") => cache'[cacheOp'.key].expiresAt = now + cacheOp'.ttl
     /\ (CacheStep("get") /\ cacheOp'.key \in DOMAIN cache) =>
          IF now < cache[cacheOp'.key].expiresAt
          THEN /\ cacheOp'.result = cache[cacheOp'.key].value
               /\ cacheOp'.key \in DOMAIN cache'
          ELSE /\ cacheOp'.result = null
               /\ cacheOp'.key \notin DOMAIN cache'
               /\ cacheOp'.key \notin AccessKeys(accessOrder')]_vars

\* the cache is full and none of its entries has expired
FullAndLive ==
  /\ Cardinality(DOMAIN cache) = MaxSize
  /\ \A k \in DOMAIN cache : now < cache[k].expiresAt

\* C13: the cache is full, no entry has expired, the last call was a get that
\* hit entry A, and set inserts a new key: exactly one entry is evicted, one
\* touched least recently among the entries other than A, and A stays.
C13_LruEvictionOrder ==
  [][(/\ CacheStep("set")
      /\ cacheOp'.key \notin DOMAIN cache
      /\ cacheOp.op = "get" /\ cacheOp.result # null
      /\ FullAndLive)
       => /\ cacheOp.key \in DOMAIN cache'
          /\ \E e \in DOMAIN cache \ {cacheOp.key} :
                /\ \A o \in DOMAIN cache \ {cacheOp.key} : LastTouched(e) <= LastTouched(o)
                /\ DOMAIN cache' = (DOMAIN cache \ {e}) \cup {cacheOp'.key}]_vars

\* the cached keys whose entry has expired, and the others
ExpiredKeys == {k \in DOMAIN cache : now >= cache[k].expiresAt}

LiveKeys == DOMAIN cache \ ExpiredKeys

\* C14: the cache never holds more than maxSize entries; set always stores
\* its key; a set on a full cache first removes every expired entry and then,
\* only if the cache is still full, evicts one entry, a least recently used
\* one; a set on a cache that is not full removes nothing.
C14_CapacityBound ==
  [][/\ Cardinality(DOMAIN cache') <= MaxSize
     /\ CacheStep("set") =>
          /\ cacheOp'.key \in DOMAIN cache'
          /\ IF Cardinality(DOMAIN cache) < MaxSize
             THEN DOMAIN cache' = DOMAIN cache \cup {cacheOp'.key}
             ELSE IF Cardinality(LiveKeys) < MaxSize
             THEN DOMAIN cache' = LiveKeys \cup {cacheOp'.key}
             ELSE \E e \in LiveKeys :
                     /\ \A o \in LiveKeys : LastTouched(e) <= LastTouched(o)
                     /\ DOMAIN cache' = (LiveKeys \ {e}) \cup {cacheOp'.key}]_vars

\* the ids in a sequence of ids
IdsIn(q) == {q[i] : i \in DOMAIN q}

\* id x comes before id y in the sequence
Before(q, x, y) == \E i, j \in DOMAIN q : i < j /\ q[i] = x /\ q[j] = y

\* the outcome of operation x is resolved: it succeeded or failed for good
Resolved(x) == x \in IdsIn(queueLog.succeeded) \/ queueLog.terminal[x] > 0

\* C15: for operations X and Y enqueued in this order, once X has failed its
\* first attempt and waits in the queue for its second, Y is not attempted
\* before the outcome of X is resolved; and when X then succeeds at its second
\* attempt and Y succeeds too, X succeeds before Y.
C15_FifoRequeue ==
  \A x, y \in IdsIn(queueLog.enqueued) :
     Before(queueLog.enqueued, x, y) =>
       /\ (/\ x \in IdsIn(queue)
           /\ queueItems[x].retryCount = 1
           /\ ~Resolved(x))
            => queueLog.attempts[y] = 0
       /\ (/\ queueLog.attempts[x] = 2
           /\ x \in IdsIn(queueLog.succeeded)
           /\ y \in IdsIn(queueLog.succeeded))
            => Before(queueLog.succeeded, x, y)

\* the results of the pass that report that x failed for good
TerminalResults(results, x) ==
  {i \in DOMAIN results : results[i].id = x /\ ~results[i].success /\ results[i].maxRetriesReached}

C17_ReentrancyGuard ==
  [][/\ queueLog'.inFlight <= 1
     /\ (/\ isProcessing
         /\ queueLog'.op \in {"processQueue", "processQueueReturnsAtOnce"}
         /\ now' = now)
          => /\ queueLog'.op = "processQueueReturnsAtOnce"
             /\ queue' = queue
             /\ queueItems' = queueItems
             /\ pass' = pass
             /\ storage' = storage
             /\ queueLog'.attempts = queueLog.attempts]_vars

\* processQueue was called while a pass was executing an operation
C17_Witness ==
  /\ queueLog.op = "processQueueReturnsAtOnce"
  /\ isProcessing
  /\ pass.pc = "executing"
  /\ Len(queue) > 0

\* the stored offlineQueue holds the operations of the queue q in its order
PersistedIs(st, q, items) ==
  /\ "offlineQueue" \in DOMAIN st
  /\ Len(st.offlineQueue) = Len(q)
  /\ \A i \in DOMAIN q :
        /\ st.offlineQueue[i].id = q[i]
        /\ st.offlineQueue[i].operation.type = items[q[i]].operation.type
        /\ st.offlineQueue[i].operation.data.targetUserId
             = items[q[i]].operation.data.targetUserId

\* C18: the queue never holds more than maxQueueSize items; enqueue on a full
\* queue removes the head and appends the new item at the tail, on a queue
\* that is not full it appends it; when enqueue returns, the stored
\* offlineQueue holds the operations of the in-memory queue in the same order.
C18_BoundedDropOldest ==
  [][/\ Len(queue') <= MaxQueueSize
     /\ (pendingEnqueue = "" /\ pendingEnqueue' # "") =>
          queue' = Append(IF Len(queue) >= MaxQueueSize THEN Tail(queue) ELSE queue,
                          pendingEnqueue')
     /\ (pendingEnqueue # "" /\ pendingEnqueue' = "") =>
          PersistedIs(storage', queue', queueItems')]_vars

\* no entry of the stored offlineQueue carries a jwtToken
NoTokenPersisted(st) ==
  "offlineQueue" \in DOMAIN st =>
     \A i \in DOMAIN st.offlineQueue :
        "jwtToken" \notin DOMAIN st.offlineQueue[i].operation.data

\* C19: no entry of the stored offlineQueue ever carries the jwtToken of its
\* operation, and every step (persistQueue among them) leaves the token of
\* every in-memory operation that holds one.
C19_TokenNeverPersisted ==
  [][/\ NoTokenPersisted(storage')
     /\ \A x \in DOMAIN queueItems :
          "jwtToken" \in DOMAIN queueItems[x].operation.data =>
             /\ "jwtToken" \in DOMAIN queueItems'[x].operation.data
             /\ queueItems'[x].operation.data.jwtToken
                  = queueItems[x].operation.data.jwtToken]_vars

\* the queue was persisted with an operation that holds a token in memory
C19_Witness ==
  /\ "offlineQueue" \in DOMAIN storage
  /\ \E i \in DOMAIN storage.offlineQueue :
        /\ storage.offlineQueue[i].id \in DOMAIN queueItems
        /\ "jwtToken" \in DOMAIN queueItems[storage.offlineQueue[i].id].operation.data
        /\ queueItems[storage.offlineQueue[i].id].operation.data.jwtToken = "jwt"
        /\ "jwtToken" \notin DOMAIN storage.offlineQueue[i].operation.data

\* the time between the last recorded sync and the call of the planner
SinceLastSync == planned.at - planned.lastSync

\* C20: determineSyncStrategy returns full when no sync was recorded or 24h or
\* more have passed since the last one, else incremental when 4h or more have
\* passed, else quick when 30min or more have passed, else skip; a time of
\* exactly 24h, 4h or 30min selects full, incremental or quick.
C20_StrategyLadder ==
  planned.op = "determineSyncStrategy" =>
    planned.type =
      IF planned.lastSync = NullTime \/ SinceLastSync >= 24 * 60 * 60 * 1000 THEN "full"
      ELSE IF SinceLastSync >= 4 * 60 * 60 * 1000 THEN "incremental"
      ELSE IF SinceLastSync >= 30 * 60 * 1000 THEN "quick"
      ELSE "skip"

\* the syncStats of a store
SyncStatsOf(st) == st.metadata.syncStats

\* C21: a smartSync that returns after a quick, incremental or full strategy
\* leaves the last-sync time of its data type at now, totalSyncs one higher
\* than at its start and the average duration recomputed with its duration;
\* one that skips leaves the store as it was
C21_SyncMetadataPersisted ==
  [][(syncLog'.seq # syncLog.seq /\ syncLog'.op = "smartSync")
       => IF syncLog'.type = "skip"
          THEN storage' = syncLog'.before
          ELSE /\ getLastSyncTime(storage', syncLog'.dataType) = now
               /\ SyncStatsOf(storage').totalSyncs = SyncStatsOf(syncLog'.before).totalSyncs + 1
               /\ Times(SyncStatsOf(storage').averageSyncDuration,
                        SyncStatsOf(storage').totalSyncs)
                    = Plus(Times(SyncStatsOf(syncLog'.before).averageSyncDuration,
                                 SyncStatsOf(syncLog'.before).totalSyncs),
                           now - syncLog'.startedAt)]_vars

\* the number of records of a direction that are not inactive
ActiveCount(st, dir) ==
  Cardinality({u \in DOMAIN CollectionOf(st, dir) : ~IsInactive(CollectionOf(st, dir)[u])})

\* C26: when the count the remote service reports equals the number of active
\* records of the direction, a quick or incremental sync reports no changes
\* and fetches no full data, inactive records in the ledger or not
C26_CountComparison ==
  (/\ sync.pc = "updating"
   /\ sync.type \in {"quick", "incremental"}
   /\ syncLog.count = ActiveCount(storage, sync.dataType))
    => (~sync.result.hasChanges /\ ~sync.result.fullFetch)

\* C27: a smartSync that chooses its strategy more than 24 hours after the
\* last full sync of its data type returned (or before any full sync) chooses
\* full, whatever quick and incremental syncs ran in between
C27_FullSyncNotStarved ==
  [][(sync.pc = "idle" /\ (sync'.pc = "syncing" \/ syncLog'.seq # syncLog.seq))
       => ((\/ syncLog.lastFull[syncLog'.dataType] = NullTime
            \/ now - syncLog.lastFull[syncLog'.dataType] > syncIntervals.full)
             => syncLog'.type = "full")]_vars

\* the step in which syncFollowingStorage, called by getFollowing, saves
SyncFollowingSaves ==
  /\ calls["getFollowing"].pc = "loaded"
  /\ calls'["getFollowing"].pc = "done"
  /\ CallSaves("sync", calls["getFollowing"], calls["getFollowing"].followDates["following"])

\* C22: when registerFollow has inserted the record of a subject between the
\* load and the save of syncFollowingStorage, a subject for whom the sync
\* loaded no record, the ledger that the sync persists lacks that record
C22_LostUpdate ==
  [][SyncFollowingSaves
       => \A u \in raceLog.insertedSince["getFollowing"] :
            u \notin DOMAIN calls["getFollowing"].followDates["following"]
              => u \notin DOMAIN CollectionOf(storage', "following")]_vars

\* registerFollow and syncFollowingStorage have both returned, the sync last,
\* and the persisted ledger has no record of the subject followed
C22_Witness ==
  /\ calls["handleFollow"].pc = "done"
  /\ calls["getFollowing"].pc = "done"
  /\ calls["handleFollow"].userId \in DOMAIN raceLog.serial["following"]
  /\ calls["handleFollow"].userId \notin DOMAIN CollectionOf(storage, "following")

\* C23: when getFollowers and getFollowing have run interleaved, with no other
\* call, the persisted ledger is the one their reconciler calls would have
\* left one after the other: every record inserted and every status changed,
\* with the timestamps of the insertions
C23_DirectionsIndependent ==
  (/\ \A p \in Passes : calls[p].pc = "done"
   /\ calls["handleFollow"].step = 0)
    => storage.followDates = raceLog.serial

\* C24: when the execution of an operation resolves, the entry at the head of
\* the queue, which processQueue removes or moves to the tail, is the entry
\* it executed, whatever was enqueued meanwhile
C24_RemovesWhatItAttempted ==
  [][(pass.pc = "executing" /\ queueLog'.op \in {"succeeds", "fails"} /\ pass' # pass)
       => (Len(queue) > 0 /\ Head(queue) = pass.item)]_vars

\* the ids in a sequence of ids
Range(q) == {q[i] : i \in DOMAIN q}

\* C25: when the script stops during a pass and the queue is loaded again, no
\* operation that has succeeded is in the loaded queue, and every loaded
\* operation has the retryCount it had in memory
C25_RestartDurability ==
  [][(pass.pc # "idle" /\ queueLog'.restarts # queueLog.restarts)
       => /\ Range(queue') \cap Range(queueLog.succeeded) = {}
          /\ \A id \in Range(queue') \cap DOMAIN queueItems :
               queueItems'[id].retryCount = queueItems[id].retryCount]_vars

\* C28: whenever the flag isProcessing is set, it is released later: every
\* pass that starts ends with isProcessing = false
C28_FlagReleased == isProcessing ~> ~isProcessing

\* C29: every operation processQueue executes carries a credential, an
\* operation loaded from the store after a restart included
C29_CredentialAtReplay ==
  pass.pc = "executing" => "jwtToken" \in DOMAIN queueItems[pass.item].operation.data

\* handleFollow has found no username and registerFollow is called with the
\* placeholder for a subject whose record holds a username
FollowsKnownSubject ==
  /\ lastOp'.seq # lastOp.seq
  /\ lastOp'.op = "registerExplicit"
  /\ lastOp'.dir = "following"
  /\ lastOp'.username = "Unknown"
  /\ lastOp'.userId \in DOMAIN CollectionOf(storage, "following")
  /\ OldName(lastOp'.userId) \notin {"", "Unknown"}

\* C30: registerFollow, called with the placeholder for a subject whose record
\* holds a username, leaves that username and the timestamp and sets
\* isActive = true
C30_FollowKeepsKnownUsername ==
  [][FollowsKnownSubject
       => /\ NewName(lastOp'.userId) = OldName(lastOp'.userId)
          /\ CollectionOf(storage', "following")[lastOp'.userId].isActive = TRUE
          /\ CollectionOf(storage', "following")[lastOp'.userId].timestamp
               = getFollowDates(storage)["following"][lastOp'.userId].timestamp]_vars

\* the step is a set of a key the cache holds, with the cache at capacity and
\* every entry short of its expiry
OverwritesAtCapacity ==
  /\ CacheStep("set")
  /\ cacheOp'.key \in DOMAIN cache
  /\ Cardinality(DOMAIN cache) = MaxSize
  /\ \A k \in DOMAIN cache : now < cache[k].expiresAt

\* C31: a set of a key the cache holds, at capacity and with no entry
\* expired, leaves every other entry and the size at maxSize; and the value
\* map and the access-order map always hold the same keys
C31_OverwriteEvictsNothing ==
  [][/\ AccessKeys(accessOrder') = DOMAIN cache'
     /\ OverwritesAtCapacity
          => /\ DOMAIN cache' = DOMAIN cache
             /\ \A k \in DOMAIN cache \ {cacheOp'.key} : cache'[k] = cache[k]]_vars

\* the step is a run of a migration step
MigrationStep == lastOp'.seq # lastOp.seq /\ lastOp'.op \in MigrationSteps

\* C34: after a migration step and the ledger load that follows it, a record
\* stored as the bare timestamp n has timestamp = n, username = "Unknown" and
\* isActive = true, a record that held a timestamp and a username and lacked
\* isActive has isActive = true with the same timestamp and username, and
\* the ledger holds the subjects the stored one held.
C34_KnownMigration ==
  [][MigrationStep =>
       \A d \in Directions :
         /\ DOMAIN getFollowDates(storage')[d] = DOMAIN storage.followDates[d]
         /\ \A u \in DOMAIN storage.followDates[d] :
              LET old == storage.followDates[d][u]
                  new == getFollowDates(storage')[d][u]
              IN  /\ "num" \in DOMAIN old =>
                       /\ new.timestamp = old.num
                       /\ new.username = "Unknown"
                       /\ new.isActive = TRUE
                  /\ (/\ {"timestamp", "username"} \subseteq DOMAIN old
                      /\ "isActive" \notin DOMAIN old) =>
                       /\ new.timestamp = old.timestamp
                       /\ new.username = old.username
                       /\ new.isActive = TRUE]_vars

\* migrateDataIfNeeded has run, later than the timestamps of the records, on
\* a ledger that now holds an upgraded bare timestamp and a record with a
\* username
C34_Witness ==
  /\ lastOp.at > 1
  /\ lastOp.op = "migrateDataIfNeeded"
  /\ \E d \in Directions : \E u \in DOMAIN storage.followDates[d] :
       storage.followDates[d][u]
         = [timestamp |-> 1, username |-> "a", isActive |-> TRUE]
  /\ \E e \in Directions : \E v \in DOMAIN storage.followDates[e] :
       storage.followDates[e][v]
         = [timestamp |-> 1, username |-> "Unknown", isActive |-> TRUE]

\* the sync function of a smartSync of the given strategy returns
SyncFunctionStep(type) ==
  sync.pc = "syncing" /\ sync'.pc = "updating" /\ sync.type = type

\* C35: performIncrementalSync fetches the first page before anything else;
\* when its count equals the last known count it returns hasChanges = false
\* and has fetched nothing more; when the counts differ it returns
\* hasChanges = true with the full data, which it has fetched once.
C35_IncrementalComparesFirst ==
  [][SyncFunctionStep("incremental") =>
       LET result == sync'.result
           lastKnownCount == getCurrentDataSize(storage, sync.dataType)
       IN /\ Head(result.fetches) = FirstPage
          /\ syncLog'.count = lastKnownCount =>
               /\ ~result.hasChanges
               /\ ~result.fullFetch
               /\ result.fetches = <<FirstPage>>
          /\ syncLog'.count # lastKnownCount =>
               /\ result.hasChanges
               /\ result.fullFetch
               /\ result.fetches = <<FirstPage, Everything>>]_vars

\* an incremental sync has found the count of a ledger with records unchanged
C35_Witness ==
  /\ sync.pc = "updating"
  /\ sync.type = "incremental"
  /\ ~sync.result.hasChanges
  /\ sync.result.newCount > 0

\* C36: a smartSync of strategy quick fetches the first page and nothing
\* else, returns hasChanges = (its totalUsers differs from the number of
\* records stored for the direction), and no step of it changes the ledger.
C36_QuickSyncReadsOnly ==
  [][/\ SyncFunctionStep("quick") =>
          /\ sync'.result.fetches = <<FirstPage>>
          /\ sync'.result.hasChanges
               = (syncLog'.count # Cardinality(DOMAIN CollectionOf(storage, sync.dataType)))
     /\ sync.type = "quick" => storage'.followDates = storage.followDates]_vars

\* a quick sync has returned: it found the count of the records, one of them
\* inactive, unchanged
C36_Witness ==
  /\ syncLog.op = "smartSync"
  /\ syncLog.type = "quick"
  /\ ~syncLog.result.hasChanges
  /\ \E u \in DOMAIN CollectionOf(storage, syncLog.dataType) :
        IsInactive(CollectionOf(storage, syncLog.dataType)[u])

\* C32: the persisted totalSyncs is the number of updateSyncStats calls
\* that have completed, and averageSyncDuration times that number is the sum
\* of their durations, getFollowers and getFollowing running interleaved at
\* their awaits or not
C32_StatsCountEverySync ==
  /\ SyncStatsOf(storage).totalSyncs = fetchLog.completed
  /\ Times(SyncStatsOf(storage).averageSyncDuration, fetchLog.completed)
       = Whole(fetchLog.durations)

\* the step is one of the call p before it has reconciled: it starts, a page
\* arrives or an attempt fails
FetchingStep(p) ==
  /\ fetches'[p] # fetches[p]
  /\ fetches[p].pc \in {"idle", "fetching"}

\* C33: getFollowers and getFollowing call registerNew* only once the cursor
\* is null, with every user of every page, and then sync*Storage with the
\* same list, once each; until then, and when a fetch fails for good, no
\* reconciler has been called and no step of the call changes the ledger or
\* the sync statistics
C33_ReconcilesCompleteSnapshot ==
  [][\A p \in Passes :
       /\ FetchingStep(p) =>
            /\ storage' = storage
            /\ fetches'[p].registered = 0 /\ fetches'[p].synced = 0
            /\ fetches'[p].pc \in {"idle", "fetching", "registering"}
            /\ fetches'[p].pc = "registering" =>
                 /\ fetches'[p].cursor = NullCursor
                 /\ fetches'[p].allUsers = fetches[p].snapshot
       /\ (fetches[p].pc = "registering" /\ fetches'[p] # fetches[p]) =>
            /\ fetches'[p].pc = "syncing"
            /\ fetches'[p].registered = 1 /\ fetches'[p].synced = 0
            /\ fetches'[p].observed = fetches[p].snapshot
       /\ (fetches[p].pc = "syncing" /\ fetches'[p] # fetches[p]) =>
            /\ fetches'[p].registered = 1 /\ fetches'[p].synced = 1
            /\ fetches'[p].allUsers = fetches[p].snapshot
       /\ (fetches[p].pc \in {"timing", "statsLoaded"} /\ fetches'[p] # fetches[p]) =>
            \/ fetches'[p].pc = "idle"
            \/ fetches'[p].registered = 1 /\ fetches'[p].synced = 1]_vars

\* a fetch of getFollowing has failed for good after its first page arrived
C33_Witness ==
  /\ fetchLog.last.threw
  /\ fetchLog.last.pass = "getFollowing"
  /\ fetchLog.last.pages = 1

\* the call of getFollowers or getFollowing returns
FetchReturns ==
  fetchLog'.last.seq # fetchLog.last.seq /\ ~fetchLog'.last.threw

\* C37: a call of getFollowers or getFollowing whose reconciliation left a
\* record inactive that was active, or a record under another username,
\* notifies the content scripts; one whose reconciliation left the collection
\* as it was does not
C37_NotifiesOnChange ==
  [][FetchReturns =>
       LET call == fetches[fetchLog'.last.pass]
           before == call.before
           after == call.after
       IN /\ (\E u \in DOMAIN before :
                \/ before[u].isActive /\ ~after[u].isActive
                \/ after[u].username # before[u].username)
               => fetchLog'.last.notified
          /\ after = before => ~fetchLog'.last.notified]_vars

\* the network monitor goes from offline to online, offline support being
\* initialized, with operations in the queue and no pass in flight
ComesBackOnline ==
  /\ ~isOnline /\ isOnline'
  /\ started
  /\ Len(queue) > 0
  /\ pass.pc = "idle"

\* C38: once offline support is initialized, a transition from offline to
\* online with a non-empty queue and no pass in flight starts a pass of
\* processQueue (isProcessing is set and the first operation is executed, or
\* the pass throws on it), and a transition to offline starts none
C38_OnlineStartsPass ==
  [][/\ ComesBackOnline =>
          /\ isProcessing'
          /\ queueLog'.op \in {"processQueue", "processQueueThrows"}
     /\ (isOnline /\ ~isOnline') =>
          /\ pass' = pass
          /\ isProcessing' = isProcessing]_vars

====
